---- MODULE Spec2Model ----
(***************************************************************************)
(* Companion matching, live proximity tracking and location recording of   *)
(* the itravelSolo backend (travel app), as a state machine.               *)
(*                                                                         *)
(* Units.  A coordinate is the arc length, in metres, from the point       *)
(* (0 deg, 0 deg): latitude x degrees is R * radians(x) metres.  On one    *)
(* meridian the Haversine formula reduces to R * |dphi|, the difference of *)
(* the two arc lengths.  Distances are integers in metres (5.0 km is       *)
(* 5000); scores are integers in hundredths (30 is 3000, 85.71 is 8571).   *)
(* A nullable column holds << >> (NULL) or <<v>>.                          *)
(***************************************************************************)
EXTENDS Integers, Sequences, FiniteSets, TLC

VARIABLES trips, friends, matches, nextId, profile, samples, today, ret, served,
          apc, amatch, atrip, upc, uargs, uqueue, ucur, ustats,
          clock, hotspots, nextHotId, hproc, insights, suggestions, landmarks

vars == <<trips, friends, matches, nextId, profile, samples, today, ret, served,
          apc, amatch, atrip, upc, uargs, uqueue, ucur, ustats,
          clock, hotspots, nextHotId, hproc, insights, suggestions, landmarks>>

dbvars == <<trips, friends, matches, nextId, profile, samples, today>>
procvars == <<apc, amatch, atrip, upc, uargs, uqueue, ucur, ustats>>
hotvars == <<hotspots, nextHotId>>
extvars == <<clock, hproc, insights, suggestions, landmarks>>

-----------------------------------------------------------------------------
(* Bounds of the model                                                     *)

\* Requests handled in one behaviour; limits passed to FindMatches.
MaxRequests == 5
MaxFindRequests == 3
MaxLimit == 2
MaxLocRequests == 3
MaxConcRequests == 4
MaxDay == 3

-----------------------------------------------------------------------------
(* Program constants                                                       *)

CLOSE_PROXIMITY_KM == 500
AUTO_EXPIRE_KM == 5000
MAX_DISTANCE_KM == 5000
SCORE_THRESHOLD == 3000
METRES_PER_DEGREE == 111195

Users == {"u1", "u2", "u3"}
TripIds == 1..4
Privacies == {"public", "friends_only", "private"}

None == << >>
Some(v) == <<v>>
IsNone(o) == o = << >>

\* Python truthiness of a nullable Decimal: None and Decimal(0) are falsy.
Truthy(o) == o # << >> /\ o[1] # 0

Abs(x) == IF x < 0 THEN -x ELSE x
Min(a, b) == IF a <= b THEN a ELSE b
Max(a, b) == IF a >= b THEN a ELSE b

\* Python round(): to the nearest integer n/d, ties to the even one.
RoundHalfEven(n, d) ==
    LET q == n \div d
        r == n % d
    IN  IF 2 * r < d THEN q
        ELSE IF 2 * r > d THEN q + 1
        ELSE IF q % 2 = 0 THEN q ELSE q + 1

RECURSIVE ISqrtFrom(_, _)
ISqrtFrom(n, k) == IF (k + 1) * (k + 1) > n THEN k ELSE ISqrtFrom(n, k + 1)

\* The Haversine great-circle distance, in metres, of two points given by
\* their arc-length coordinates.  Exact on a common meridian; the model's
\* points lie within a few km of (0, 0), where the sphere is flat to less
\* than a metre.  Past FarAway the larger coordinate difference stands for
\* the distance: every threshold of the program is at most 5 km.
FarAway == 30000
Haversine(lat1, lon1, lat2, lon2) ==
    LET dlat == Abs(lat2 - lat1)
        dlon == Abs(lon2 - lon1)
    IN  IF dlon = 0 THEN dlat
        ELSE IF dlat = 0 THEN dlon
        ELSE IF dlat > FarAway \/ dlon > FarAway THEN Max(dlat, dlon)
        ELSE ISqrtFrom(dlat * dlat + dlon * dlon, Max(dlat, dlon))

haversine_distance(lat1, lon1, lat2, lon2) == Haversine(lat1, lon1, lat2, lon2)
calculate_distance_km(lat1, lon1, lat2, lon2) == Haversine(lat1, lon1, lat2, lon2)

-----------------------------------------------------------------------------
(* MatchScorer: travel/services/matching.py                                *)

\* str.lower() on the destination names of the model.
Lower(s) ==
    CASE s = "Goa" -> "goa"
      [] s = "goa" -> "goa"
      [] s = "Rome" -> "rome"
      [] OTHER -> s

SeqToSet(s) == {s[i] : i \in DOMAIN s}

duration_days(t) == (t.end_date - t.start_date) + 1

calculate_date_overlap_abs(trip1, trip2) ==
    Abs(Min(trip1.end_date, trip2.end_date) - Max(trip1.start_date, trip2.start_date)) + 1

calculate_date_overlap_exclusive(trip1, trip2) ==
    LET start == Max(trip1.start_date, trip2.start_date)
        end == Min(trip1.end_date, trip2.end_date)
    IN  IF start <= end THEN end - start ELSE 0

calculate_date_overlap(trip1, trip2) ==
    LET start == Max(trip1.start_date, trip2.start_date)
        end == Min(trip1.end_date, trip2.end_date)
    IN  IF start <= end THEN (end - start) + 1 ELSE 0

calculate_interest_match_first(interests1, interests2) ==
    IF interests1 = << >> \/ interests2 = << >>
    THEN [common |-> {}, num |-> 0, den |-> 1]
    ELSE [common |-> SeqToSet(interests1) \cap SeqToSet(interests2),
          num |-> Cardinality(SeqToSet(interests1) \cap SeqToSet(interests2)),
          den |-> Cardinality(SeqToSet(interests1))]

\* (common interests, |common|, |union|); match_percentage is
\* |common| / |union| * 100, kept as the exact fraction.
calculate_interest_match(interests1, interests2) ==
    IF interests1 = << >> \/ interests2 = << >>
    THEN [common |-> {}, num |-> 0, den |-> 1]
    ELSE LET common == SeqToSet(interests1) \cap SeqToSet(interests2)
             total_unique == Cardinality(SeqToSet(interests1) \cup SeqToSet(interests2))
         IN  IF total_unique = 0
             THEN [common |-> {}, num |-> 0, den |-> 1]
             ELSE [common |-> common, num |-> Cardinality(common), den |-> total_unique]

HasCoords(trip, candidate_trip) ==
    /\ Truthy(trip.destination_lat)
    /\ Truthy(trip.destination_lng)
    /\ Truthy(candidate_trip.destination_lat)
    /\ Truthy(candidate_trip.destination_lng)

DestDistance(trip, candidate_trip) ==
    haversine_distance(trip.destination_lat[1], trip.destination_lng[1],
                       candidate_trip.destination_lat[1],
                       candidate_trip.destination_lng[1])

\* distance_score as the fraction num / max_distance_km (30 points max).
DistanceScoreNum(trip, candidate_trip, max_distance_km) ==
    IF HasCoords(trip, candidate_trip)
    THEN LET distance == DestDistance(trip, candidate_trip)
         IN  IF distance > max_distance_km THEN 0
             ELSE 30 * (max_distance_km - distance)
    ELSE IF Lower(trip.destination) = Lower(candidate_trip.destination)
         THEN 30 * max_distance_km
         ELSE 0

calculate_match_score(trip, candidate_trip, max_distance_km) ==
    LET overlap_days == calculate_date_overlap(trip, candidate_trip)
        max_trip_duration == Max(duration_days(trip), duration_days(candidate_trip))
        im == calculate_interest_match(trip.interests, candidate_trip.interests)
        dnum == DistanceScoreNum(trip, candidate_trip, max_distance_km)
        \* total_score = 50*ov/md + dnum/max + 20*num/den over one denominator
        den == max_trip_duration * max_distance_km * im.den
        num == 50 * overlap_days * max_distance_km * im.den
               + dnum * max_trip_duration * im.den
               + 20 * im.num * max_trip_duration * max_distance_km
    IN  IF overlap_days = 0
        THEN [score |-> 0, date_overlap_days |-> 0, common_interests |-> {},
              distance_km |-> None]
        ELSE [score |-> RoundHalfEven(100 * num, den),
              date_overlap_days |-> overlap_days,
              common_interests |-> im.common,
              distance_km |-> IF HasCoords(trip, candidate_trip)
                              THEN Some(10 * RoundHalfEven(DestDistance(trip, candidate_trip), 10))
                              ELSE None]

-----------------------------------------------------------------------------
(* Storage: travel/models.py, user/models.py                               *)

Owner(tid) == trips[tid].user

MatchById(ms, id) == CHOOSE m \in ms : m.id = id
HasMatch(ms, id) == \E m \in ms : m.id = id

\* TripMatch.Meta.unique_together = ["trip", "matched_user"]: an INSERT of a
\* second row for the pair raises IntegrityError.
UniqueTogetherOK(ms, tid, user) ==
    ~ \E m \in ms : m.trip = tid /\ m.matched_user = user

NewMatch(id, tid, cid, sc) ==
    [id |-> id, trip |-> tid, matched_user |-> Owner(cid), matched_trip |-> cid,
     score |-> sc.score, common_interests |-> sc.common_interests,
     distance_km |-> sc.distance_km, current_distance_km |-> None,
     last_distance_update |-> None,
     is_proximity_expired |-> FALSE, status |-> "pending",
     created_at |-> clock, updated_at |-> clock]

\* DecimalField(max_digits=9, decimal_places=6): at most three integer digits.
FitsDecimal(v) == Abs(v) < 1000 * METRES_PER_DEGREE

EmptyRet ==
    [op |-> "init", user |-> "-", success |-> TRUE, error |-> "", trip |-> 0,
     limit |-> 0, returned |-> << >>, created |-> << >>, before |-> {},
     match |-> 0, position |-> << >>, stored |-> 0, sample |-> 0,
     clusters |-> << >>, other |-> 0, score |-> 0,
     input |-> [start_date |-> << >>, end_date |-> << >>],
     place |-> "-", calls |-> 0, alone |-> FALSE,
     steps |-> {}, updated |-> {},
     expired_count |-> 0, close_matches |-> << >>,
     notify |-> "-", hotspot |-> 0, generated |-> << >>, failing |-> {}]

-----------------------------------------------------------------------------
(* MatchFinder: find_trip_matches, travel/services/matching.py             *)

DeletePendingKeep(ms, tid) == ms

\* TripMatch.objects.filter(trip=trip, status="pending").delete()
DeletePending(ms, tid) == {m \in ms : ~(m.trip = tid /\ m.status = "pending")}

IsCandidateAnyPrivacy(tid, cid) ==
    /\ trips[cid].user # trips[tid].user
    /\ trips[cid].start_date <= trips[tid].end_date
    /\ trips[cid].end_date >= trips[tid].start_date

\* The candidate query: privacy and friendship, not the owner's own trips,
\* date ranges that overlap.
IsCandidate(tid, cid) ==
    LET trip == trips[tid]
        c == trips[cid]
    IN  /\ \/ c.privacy = "public"
           \/ c.privacy = "friends_only" /\ c.user \in friends[trip.user]
        /\ c.user # trip.user
        /\ c.start_date <= trip.end_date
        /\ c.end_date >= trip.start_date

\* Trip.Meta.ordering = ["-created_at"]: trip ids are in creation order, the
\* query yields the latest trip first.
RECURSIVE DescSeq(_, _)
DescSeq(S, n) ==
    IF n = 0 THEN << >>
    ELSE IF n \in S THEN <<n>> \o DescSeq(S, n - 1) ELSE DescSeq(S, n - 1)

Candidates(tid) ==
    DescSeq({c \in DOMAIN trips : IsCandidate(tid, c)}, Cardinality(TripIds))

ScoreOf(tid, cid) == calculate_match_score(trips[tid], trips[cid], MAX_DISTANCE_KM)

Qualifies(tid, cid) == ScoreOf(tid, cid).score >= SCORE_THRESHOLD

\* The loop over the candidates: one INSERT per candidate at or above the
\* threshold; the first IntegrityError ends the call, the rows written so
\* far stay (autocommit, no transaction around the call).
RECURSIVE FindLoop(_, _, _, _, _)
FindLoop(tid, cands, ms, id, created) ==
    IF cands = << >>
    THEN [matches |-> ms, nextId |-> id, created |-> created, raised |-> FALSE]
    ELSE LET cid == Head(cands)
         IN  IF ~Qualifies(tid, cid)
             THEN FindLoop(tid, Tail(cands), ms, id, created)
             ELSE IF ~UniqueTogetherOK(ms, tid, Owner(cid))
             THEN [matches |-> ms, nextId |-> id, created |-> created, raised |-> TRUE]
             ELSE FindLoop(tid, Tail(cands),
                           ms \cup {NewMatch(id, tid, cid, ScoreOf(tid, cid))},
                           id + 1, Append(created, id))

\* list.sort(key=score, reverse=True): stable, equal scores keep their order.
RECURSIVE InsertDesc(_, _, _)
InsertDesc(sorted, id, ms) ==
    IF sorted = << >> THEN <<id>>
    ELSE IF MatchById(ms, Head(sorted)).score >= MatchById(ms, id).score
         THEN <<Head(sorted)>> \o InsertDesc(Tail(sorted), id, ms)
         ELSE <<id>> \o sorted

SortUnsorted(ids, ms) == ids

RECURSIVE SortByScoreDesc(_, _)
SortByScoreDesc(ids, ms) ==
    IF ids = << >> THEN << >>
    ELSE InsertDesc(SortByScoreDesc(SubSeq(ids, 1, Len(ids) - 1), ms),
                    ids[Len(ids)], ms)

\* matches[:limit]
SliceTo(s, limit) ==
    IF limit >= 0 THEN SubSeq(s, 1, Min(limit, Len(s)))
    ELSE SubSeq(s, 1, Max(0, Len(s) + limit))

find_trip_matches(tid, limit) ==
    LET r == FindLoop(tid, Candidates(tid), DeletePending(matches, tid), nextId, << >>)
    IN  [matches |-> r.matches, nextId |-> r.nextId, created |-> r.created,
         raised |-> r.raised,
         returned |-> IF r.raised THEN << >>
                      ELSE SliceTo(SortByScoreDesc(r.created, r.matches), limit)]

\* The FindMatches mutation: the trip must belong to the requester; every
\* exception becomes a failure response.
FindMatches(user, tid, limit) ==
    /\ IF Owner(tid) # user
       THEN /\ UNCHANGED <<matches, nextId>>
            /\ ret' = [EmptyRet EXCEPT !.op = "find", !.user = user, !.trip = tid,
                           !.limit = limit, !.success = FALSE, !.error = "not_found"]
       ELSE \E r \in {find_trip_matches(tid, limit)} :
                /\ matches' = r.matches
                /\ nextId' = r.nextId
                /\ ret' = [EmptyRet EXCEPT !.op = "find", !.user = user, !.trip = tid,
                               !.limit = limit, !.success = ~r.raised,
                               !.error = IF r.raised THEN "IntegrityError" ELSE "",
                               !.created = r.created, !.returned = r.returned,
                               !.before = {m.id : m \in {x \in matches :
                                              x.trip = tid /\ x.status = "pending"}}]
    /\ UNCHANGED <<trips, friends, profile, samples, today>>
    /\ UNCHANGED procvars
    /\ UNCHANGED <<hotvars, extvars>>

-----------------------------------------------------------------------------
(* AcceptMatch / RejectMatch: travel/graphql/mutations.py                  *)

MatchLookupAnyStatus(ms, user, mid) ==
    {m \in ms : m.id = mid /\ Owner(m.trip) = user}

MatchLookupAnyOwner(ms, user, mid) ==
    {m \in ms : m.id = mid /\ m.status = "pending"}

\* TripMatch.objects.get(id=match_id, trip__user=user, status="pending")
MatchLookup(ms, user, mid) ==
    {m \in ms : m.id = mid /\ Owner(m.trip) = user /\ m.status = "pending"}

\* Model.save() of a loaded row: UPDATE of every column by primary key; when
\* no row has the key any more, an INSERT (subject to unique_together).
SaveFullOK(ms, row) == HasMatch(ms, row.id) \/ UniqueTogetherOK(ms, row.trip, row.matched_user)
\* updated_at is auto_now: set by every save() that writes the column.
SaveFull(ms, row) ==
    {m \in ms : m.id # row.id} \cup {[row EXCEPT !.updated_at = clock]}

\* Model.save(update_fields=...): UPDATE of the named columns by primary key;
\* DatabaseError when no row was affected.  A column that is not named,
\* updated_at included, keeps its stored value.
SaveDistance(ms, id, d) ==
    {IF m.id = id THEN [m EXCEPT !.current_distance_km = Some(d),
                                 !.last_distance_update = Some(clock)]
     ELSE m : m \in ms}
SaveExpiry(ms, id) ==
    {IF m.id = id THEN [m EXCEPT !.is_proximity_expired = TRUE, !.status = "rejected"]
     ELSE m : m \in ms}

AddCompanion(ts, tid) ==
    [ts EXCEPT ![tid].current_companions = ts[tid].current_companions + 1]

AcceptMatch(user, mid) ==
    LET found == MatchLookup(matches, user, mid)
    IN  /\ IF found = {}
           THEN /\ UNCHANGED <<matches, trips>>
                /\ ret' = [EmptyRet EXCEPT !.op = "accept", !.user = user, !.match = mid,
                               !.success = FALSE, !.error = "not_found"]
           ELSE LET match == CHOOSE m \in found : TRUE
                IN  /\ matches' = SaveFull(matches, [match EXCEPT !.status = "accepted"])
                    /\ trips' = AddCompanion(trips, match.trip)
                    /\ ret' = [EmptyRet EXCEPT !.op = "accept", !.user = user,
                                   !.match = mid, !.trip = match.trip]
        /\ UNCHANGED <<friends, nextId, profile, samples, today>>
        /\ UNCHANGED procvars
        /\ UNCHANGED <<hotvars, extvars>>

RejectMatch(user, mid) ==
    LET found == MatchLookup(matches, user, mid)
    IN  /\ IF found = {}
           THEN /\ UNCHANGED matches
                /\ ret' = [EmptyRet EXCEPT !.op = "reject", !.user = user, !.match = mid,
                               !.success = FALSE, !.error = "not_found"]
           ELSE LET match == CHOOSE m \in found : TRUE
                IN  /\ matches' = SaveFull(matches, [match EXCEPT !.status = "rejected"])
                    /\ ret' = [EmptyRet EXCEPT !.op = "reject", !.user = user,
                                   !.match = mid, !.trip = match.trip]
        /\ UNCHANGED <<trips, friends, nextId, profile, samples, today>>
        /\ UNCHANGED procvars
        /\ UNCHANGED <<hotvars, extvars>>

\* Trip.delete(): the row goes, and with it (on_delete=CASCADE) every
\* TripMatch whose trip or matched_trip it is, every LocationHistory and
\* every TripSuggestion of the trip.  No other row is written.
CascadeMatches(ms, tid) == {m \in ms : m.trip # tid /\ m.matched_trip # tid}
CascadeSamples(smp, tid) == SelectSeq(smp, LAMBDA x : x.trip # tid)
CascadeSuggestions(sg, tid) == {x \in sg : x.trip # tid}

\* The DeleteTrip mutation: Trip.objects.get(id=trip_id, user=user).delete()
DeleteTrip(user, tid) ==
    /\ IF tid \notin DOMAIN trips \/ trips[tid].user # user
       THEN /\ UNCHANGED <<trips, matches, samples, suggestions>>
            /\ ret' = [EmptyRet EXCEPT !.op = "delete", !.user = user, !.trip = tid,
                           !.success = FALSE, !.error = "not_found"]
       ELSE /\ trips' = [t \in DOMAIN trips \ {tid} |-> trips[t]]
            /\ matches' = CascadeMatches(matches, tid)
            /\ samples' = CascadeSamples(samples, tid)
            /\ suggestions' = CascadeSuggestions(suggestions, tid)
            /\ ret' = [EmptyRet EXCEPT !.op = "delete", !.user = user, !.trip = tid]
    /\ UNCHANGED <<friends, nextId, profile, today>>
    /\ UNCHANGED procvars
    /\ UNCHANGED <<hotvars, clock, hproc, insights, landmarks>>

-----------------------------------------------------------------------------
(* ProximityTracker: travel/services/proximity_matcher.py                  *)

\* filter(Q(trip__user=user) | Q(matched_user=user), status="pending",
\*        is_proximity_expired=False)
PendingQuery(ms, user) ==
    {m \in ms : /\ Owner(m.trip) = user \/ m.matched_user = user
                /\ m.status = "pending"
                /\ ~m.is_proximity_expired}

\* TripMatch.Meta.ordering = ["-score", "-created_at"]
RECURSIVE OrderedRows(_)
OrderedRows(S) ==
    IF S = {} THEN << >>
    ELSE LET first == CHOOSE m \in S : \A o \in S :
                          \/ m.score > o.score
                          \/ m.score = o.score /\ m.id >= o.id
         IN  <<first>> \o OrderedRows(S \ {first})

OtherUser(match, user) ==
    IF Owner(match.trip) = user THEN match.matched_user ELSE Owner(match.trip)

_should_expire_inclusive(match, current_distance) ==
    match.status = "pending" /\ current_distance >= AUTO_EXPIRE_KM

_should_expire(match, current_distance) ==
    IF match.status # "pending" THEN FALSE
    ELSE IF current_distance > AUTO_EXPIRE_KM THEN TRUE
    ELSE FALSE

IsClose(distance) == distance <= CLOSE_PROXIMITY_KM

EmptyStats ==
    [updated |-> {}, expired |-> {}, expired_count |-> 0, close_matches |-> << >>,
     raised |-> FALSE]

\* The body of the loop for one loaded row `match`, against the stored rows
\* `ms`: the result is the rows and the statistics after it.
ProximityStep(ms, prof, stats, match, user, latitude, longitude) ==
    LET other_user == OtherUser(match, user)
    IN  IF ~Truthy(prof[other_user].latitude)
        THEN [matches |-> ms, stats |-> stats]
        ELSE IF ~HasMatch(ms, match.id)
        THEN [matches |-> ms, stats |-> [stats EXCEPT !.raised = TRUE]]
        ELSE LET distance == calculate_distance_km(latitude, longitude,
                                 prof[other_user].latitude[1], prof[other_user].longitude[1])
                 ms1 == SaveDistance(ms, match.id, distance)
                 st1 == [stats EXCEPT
                           !.updated = @ \cup {match.id},
                           !.close_matches =
                               IF IsClose(distance)
                               THEN Append(@, [match_id |-> match.id,
                                               other_user |-> other_user,
                                               distance_meters |-> distance])
                               ELSE @]
             IN  IF _should_expire(match, distance)
                 THEN [matches |-> SaveExpiry(ms1, match.id),
                       stats |-> [st1 EXCEPT !.expired = @ \cup {match.id},
                                             !.expired_count = @ + 1]]
                 ELSE [matches |-> ms1, stats |-> st1]

RECURSIVE ProximityLoop(_, _, _, _, _, _, _)
ProximityLoop(queue, ms, prof, stats, user, latitude, longitude) ==
    IF queue = << >> \/ stats.raised
    THEN [matches |-> ms, stats |-> stats]
    ELSE LET r == ProximityStep(ms, prof, stats, Head(queue), user, latitude, longitude)
         IN  ProximityLoop(Tail(queue), r.matches, prof, r.stats, user, latitude, longitude)

update_match_distances(ms, prof, user, latitude, longitude) ==
    ProximityLoop(OrderedRows(PendingQuery(ms, user)), ms, prof, EmptyStats,
                  user, latitude, longitude)

-----------------------------------------------------------------------------
(* HotspotDetector: travel/services/hotspot_detector.py                    *)

MIN_USERS_FOR_HOTSPOT == 2
CLUSTER_RADIUS_KM == 100
ACTIVITY_WINDOW_MINUTES == 30
HOTSPOT_EXPIRY_MINUTES == 60

\* The order of the user ids (order_by("user_id")).
UserOrder == <<"u1", "u2", "u3", "u4", "u5", "u6">>

\* Python round half even of a quotient that may be negative.
Mean(total, n) == IF total >= 0 THEN RoundHalfEven(total, n) ELSE -RoundHalfEven(-total, n)

RECURSIVE SumSeq(_)
SumSeq(s) == IF s = << >> THEN 0 ELSE Head(s) + SumSeq(Tail(s))

\* Users with a trip that is active today.
ActiveTripUsers(ts) ==
    {ts[t].user : t \in {x \in DOMAIN ts : /\ ts[x].is_active
                                           /\ ts[x].start_date <= today
                                           /\ ts[x].end_date >= today}}

\* filter(user_id__in=..., recorded_at__gte=recent_time)
\*   .order_by("user_id", "-recorded_at").distinct("user_id")
RecentOf(smp, ts, now, user) ==
    {i \in DOMAIN smp : /\ smp[i].user = user
                        /\ user \in ActiveTripUsers(ts)
                        /\ smp[i].recorded_at >= now - ACTIVITY_WINDOW_MINUTES}

LatestOf(smp, S) ==
    CHOOSE i \in S : \A j \in S :
        \/ smp[i].recorded_at > smp[j].recorded_at
        \/ smp[i].recorded_at = smp[j].recorded_at /\ i >= j

RECURSIVE RecentFrom(_, _, _, _)
RecentFrom(smp, ts, now, k) ==
    IF k > Len(UserOrder) THEN << >>
    ELSE LET S == RecentOf(smp, ts, now, UserOrder[k])
         IN  (IF S = {} THEN << >> ELSE <<smp[LatestOf(smp, S)]>>)
             \o RecentFrom(smp, ts, now, k + 1)

RecentLocations(smp, ts, now) == RecentFrom(smp, ts, now, 1)

_calculate_distance(lat1, lng1, lat2, lng2) == Haversine(lat1, lng1, lat2, lng2)

NearbyFromAll(locations, j, location, processed, nearby) ==
    LET near == SelectSeq(locations, LAMBDA o :
                    _calculate_distance(location.latitude, location.longitude,
                                        o.latitude, o.longitude) <= CLUSTER_RADIUS_KM)
    IN  [nearby |-> near, processed |-> processed \cup {location.user}]

\* The inner loop: the samples of unprocessed users within the radius of
\* `location`, each marked processed as it is taken.
RECURSIVE NearbyFrom(_, _, _, _, _)
NearbyFrom(locations, j, location, processed, nearby) ==
    IF j > Len(locations) THEN [nearby |-> nearby, processed |-> processed]
    ELSE LET other == locations[j]
         IN  IF other.user \in processed
             THEN NearbyFrom(locations, j + 1, location, processed, nearby)
             ELSE IF _calculate_distance(location.latitude, location.longitude,
                                         other.latitude, other.longitude)
                        <= CLUSTER_RADIUS_KM
             THEN NearbyFrom(locations, j + 1, location,
                             processed \cup {other.user}, Append(nearby, other))
             ELSE NearbyFrom(locations, j + 1, location, processed, nearby)

\* The rows of the insights tables that carry coordinates (`landmarks`), by
\* model class; within a class in the order of their ids.
PLACE_SEARCH_RADIUS == 200
MatchModels == <<"MostFamousPlace", "HiddenGem", "TouristTrap">>

PlacesNear(kind, latitude, longitude, radius) ==
    {l \in landmarks : /\ l.kind = kind
                       /\ _calculate_distance(latitude, longitude,
                                              l.latitude, l.longitude) <= radius}

FirstPlace(S) == CHOOSE l \in S : \A o \in S : l.id <= o.id

\* _match_place: the id of the first place within 200 m of the centre, by
\* model class in the order of the loop; None when there is none.
RECURSIVE MatchFrom(_, _, _)
MatchFrom(k, latitude, longitude) ==
    IF k > Len(MatchModels) THEN None
    ELSE LET S == PlacesNear(MatchModels[k], latitude, longitude, PLACE_SEARCH_RADIUS)
         IN  IF S # {} THEN Some(FirstPlace(S).id)
             ELSE MatchFrom(k + 1, latitude, longitude)

_match_place(latitude, longitude) == MatchFrom(1, latitude, longitude)

ClusterLatitude(nearby) ==
    Mean(SumSeq([k \in DOMAIN nearby |-> nearby[k].latitude]), Len(nearby))
ClusterLongitude(nearby) ==
    Mean(SumSeq([k \in DOMAIN nearby |-> nearby[k].longitude]), Len(nearby))

NewCluster(nearby) ==
    [latitude |-> ClusterLatitude(nearby),
     longitude |-> ClusterLongitude(nearby),
     user_count |-> Len(nearby),
     user_ids |-> [k \in DOMAIN nearby |-> nearby[k].user],
     place_id |-> _match_place(ClusterLatitude(nearby), ClusterLongitude(nearby))]

RECURSIVE ClusterFrom(_, _, _, _)
ClusterFrom(locations, i, processed, clusters) ==
    IF i > Len(locations) THEN clusters
    ELSE IF locations[i].user \in processed
    THEN ClusterFrom(locations, i + 1, processed, clusters)
    ELSE LET r == NearbyFrom(locations, 1, locations[i], processed, << >>)
         IN  ClusterFrom(locations, i + 1, r.processed,
                         IF Len(r.nearby) >= MIN_USERS_FOR_HOTSPOT
                         THEN Append(clusters, NewCluster(r.nearby))
                         ELSE clusters)

_cluster_locations(locations) == ClusterFrom(locations, 1, {}, << >>)

_cleanup_expired_hotspots_later(hs, now) ==
    {h \in hs : ~(h.expires_at < now - HOTSPOT_EXPIRY_MINUTES)}

\* ActivityHotspot.objects.filter(expires_at__lt=self.now).delete()
_cleanup_expired_hotspots(hs, now) == {h \in hs : ~(h.expires_at < now)}

\* ActivityHotspot.Meta.ordering = ["-last_activity"]; last_activity is set
\* by auto_now at each save, so the order is that of the saves (`saved`).
RECURSIVE OrderedHotspots(_)
OrderedHotspots(S) ==
    IF S = {} THEN << >>
    ELSE LET first == CHOOSE h \in S : \A o \in S : h.saved >= o.saved
         IN  <<first>> \o OrderedHotspots(S \ {first})

NearCluster(h, cluster) ==
    _calculate_distance(cluster.latitude, cluster.longitude, h.latitude, h.longitude)
        <= CLUSTER_RADIUS_KM

\* The rows and the save counter after one cluster: the first non-expired
\* hotspot within the radius of the centroid is refreshed, else a hotspot
\* is created.
_update_or_create_hotspot(hs, counter, cluster, now) ==
    LET existing_hotspots == OrderedHotspots({h \in hs : h.expires_at >= now})
        near == SelectSeq(existing_hotspots, LAMBDA h : NearCluster(h, cluster))
    IN  IF near # << >>
        THEN [hotspots |->
                {IF h.id = near[1].id
                 THEN [h EXCEPT !.user_count = cluster.user_count,
                                !.active_users = cluster.user_ids,
                                !.last_activity = now,
                                !.expires_at = now + HOTSPOT_EXPIRY_MINUTES,
                                !.related_place_id =
                                    IF cluster.place_id # None THEN cluster.place_id
                                    ELSE @,
                                !.saved = counter]
                 ELSE h : h \in hs},
              counter |-> counter + 1]
        ELSE [hotspots |->
                hs \cup {[id |-> counter, latitude |-> cluster.latitude,
                          longitude |-> cluster.longitude,
                          user_count |-> cluster.user_count,
                          active_users |-> cluster.user_ids,
                          related_place_id |-> cluster.place_id,
                          first_detected |-> now, last_activity |-> now,
                          expires_at |-> now + HOTSPOT_EXPIRY_MINUTES,
                          saved |-> counter]},
              counter |-> counter + 1]

RECURSIVE UpdateClusters(_, _, _, _)
UpdateClusters(clusters, hs, counter, now) ==
    IF clusters = << >> THEN [hotspots |-> hs, counter |-> counter]
    ELSE LET r == IF Head(clusters).user_count >= MIN_USERS_FOR_HOTSPOT
                  THEN _update_or_create_hotspot(hs, counter, Head(clusters), now)
                  ELSE [hotspots |-> hs, counter |-> counter]
         IN  UpdateClusters(Tail(clusters), r.hotspots, r.counter, now)

\* _update_hotspots: the clusters of the recent samples and the rows after
\* they were refreshed or created.
_update_hotspots(hs, counter, smp, ts, now) ==
    LET clusters == _cluster_locations(RecentLocations(smp, ts, now))
        r == UpdateClusters(clusters, hs, counter, now)
    IN  [hotspots |-> r.hotspots, counter |-> r.counter, clusters |-> clusters]

\* detect_and_notify up to the notification: cleanup, then update.
detect_hotspots(hs, counter, smp, ts, now) ==
    _update_hotspots(_cleanup_expired_hotspots(hs, now), counter, smp, ts, now)

-----------------------------------------------------------------------------
(* LocationRecorder and the UpdateLocation mutation                        *)

ActiveTripsAnyDate(user) ==
    {t \in DOMAIN trips : trips[t].user = user /\ trips[t].is_active}

\* Trip.objects.filter(user=user, is_active=True, start_date__lte=today,
\*                     end_date__gte=today).first()
ActiveTrips(user) ==
    {t \in DOMAIN trips : /\ trips[t].user = user
                     /\ trips[t].is_active
                     /\ trips[t].start_date <= today
                     /\ trips[t].end_date >= today}

ActiveTrip(user) ==
    IF ActiveTrips(user) = {} THEN 0
    ELSE CHOOSE t \in ActiveTrips(user) : \A o \in ActiveTrips(user) : t >= o

\* The notification of detect_and_notify.  TripSuggestion rows are
\* [id, user, trip, suggestion_type, latitude, longitude, related_place_id,
\* created_at]; the id of a new row is one more than the greatest stored.
NOTIFICATION_RADIUS_KM == 1500
NOTIFICATION_WINDOW_MINUTES == 120

NextSuggestionId(sg) ==
    IF sg = {} THEN 1 ELSE 1 + (CHOOSE n \in {x.id : x \in sg} : \A x \in sg : n >= x.id)

\* Trip.objects.filter(user, is_active, start_date <= today <= end_date).first()
_get_active_trip(user) == ActiveTrip(user)

\* The loop of _find_nearby_hotspot over the non-expired hotspots with
\* enough users, in Meta.ordering: a hotspot replaces the one kept when it
\* is within the notification radius and strictly nearer.
RECURSIVE NearestFrom(_, _, _, _)
NearestFrom(queue, latitude, longitude, kept) ==
    IF queue = << >> THEN kept
    ELSE LET hotspot == Head(queue)
             distance == _calculate_distance(latitude, longitude,
                                             hotspot.latitude, hotspot.longitude)
         IN  NearestFrom(Tail(queue), latitude, longitude,
                         IF /\ distance <= NOTIFICATION_RADIUS_KM
                            /\ (kept = None \/ distance < kept[1].distance)
                         THEN Some([hotspot |-> hotspot, distance |-> distance])
                         ELSE kept)

_find_first_hotspot(hs, latitude, longitude, now) ==
    LET within == SelectSeq(OrderedHotspots({h \in hs : h.expires_at >= now}),
                            LAMBDA h : _calculate_distance(latitude, longitude,
                                           h.latitude, h.longitude)
                                         <= NOTIFICATION_RADIUS_KM)
    IN  IF within = << >> THEN None
        ELSE Some([hotspot |-> within[1],
                   distance |-> _calculate_distance(latitude, longitude,
                                    within[1].latitude, within[1].longitude)])

_find_nearby_hotspot(hs, latitude, longitude, now) ==
    NearestFrom(OrderedHotspots({h \in hs : /\ h.expires_at >= now
                                            /\ h.user_count >= MIN_USERS_FOR_HOTSPOT}),
                latitude, longitude, None)

RecentWindow(sg, user, trip, hotspot, now, window) ==
    \E x \in sg : /\ x.user = user
                  /\ x.trip = trip
                  /\ x.suggestion_type = "activity_hotspot"
                  /\ x.related_place_id = hotspot.related_place_id
                  /\ x.created_at >= now - window

existing_notification_any_place(sg, user, trip, hotspot, now) ==
    \E x \in sg : /\ x.user = user
                  /\ x.trip = trip
                  /\ x.suggestion_type = "activity_hotspot"
                  /\ x.created_at >= now - NOTIFICATION_WINDOW_MINUTES

\* TripSuggestion.objects.filter(user, trip, suggestion_type="activity_hotspot",
\*     related_place_id=hotspot.related_place_id, created_at__gte=now - 2 h).exists()
existing_notification(sg, user, trip, hotspot, now) ==
    RecentWindow(sg, user, trip, hotspot, now, NOTIFICATION_WINDOW_MINUTES)

\* _get_friend_names_in_hotspot: Profile.objects.get(user=self.user), then
\* user_profile.friends.  Profile has no attribute `friends` (the relation
\* is Social.friends), so with a Profile row the call raises AttributeError;
\* without one Profile.DoesNotExist is caught and the list is empty.
FriendNamesRaises(prof, user) == user \in DOMAIN prof

_create_hotspot_notification(sg, prof, user, trip, hotspot, now) ==
    IF existing_notification(sg, user, trip, hotspot, now)
    THEN [outcome |-> "duplicate", suggestions |-> sg, hotspot |-> hotspot.id]
    ELSE IF FriendNamesRaises(prof, user)
    THEN [outcome |-> "raised", suggestions |-> sg, hotspot |-> hotspot.id]
    ELSE [outcome |-> "created", hotspot |-> hotspot.id,
          suggestions |-> sg \cup {[id |-> NextSuggestionId(sg), user |-> user,
                                    trip |-> trip,
                                    suggestion_type |-> "activity_hotspot",
                                    latitude |-> hotspot.latitude,
                                    longitude |-> hotspot.longitude,
                                    related_place_id |-> hotspot.related_place_id,
                                    created_at |-> now]}]

\* if distance_to_hotspot < self.CLUSTER_RADIUS_KM: return None
Inside(distance) == distance < CLUSTER_RADIUS_KM

\* detect_and_notify after _update_hotspots, over the hotspots `hs` that the
\* pass has left.
notify(hs, sg, prof, user, latitude, longitude, now) ==
    LET active_trip == _get_active_trip(user)
        nearby_hotspot == _find_nearby_hotspot(hs, latitude, longitude, now)
        silent == [outcome |-> "no_trip", suggestions |-> sg, hotspot |-> 0]
    IN  IF active_trip = 0 THEN silent
        ELSE IF nearby_hotspot = None THEN [silent EXCEPT !.outcome = "no_hotspot"]
        ELSE IF Inside(nearby_hotspot[1].distance)
        THEN [silent EXCEPT !.outcome = "inside",
                            !.hotspot = nearby_hotspot[1].hotspot.id]
        ELSE _create_hotspot_notification(sg, prof, user, active_trip,
                                          nearby_hotspot[1].hotspot, now)

-----------------------------------------------------------------------------
(* SuggestionEngine: travel/services/suggestion_engine.py                  *)

FAMOUS_PLACE_RADIUS == 100
HIDDEN_GEM_RADIUS == 50
TOURIST_TRAP_RADIUS == 200
ACTIVITY_LOCATION_RADIUS == 150
ALREADY_SUGGESTED_RADIUS == 50

\* The tables in the order _find_nearby_places reads them, each with its
\* radius.
EngineModels ==
    <<[kind |-> "MostFamousPlace", radius |-> FAMOUS_PLACE_RADIUS],
      [kind |-> "FamousPlace", radius |-> FAMOUS_PLACE_RADIUS],
      [kind |-> "HiddenGem", radius |-> HIDDEN_GEM_RADIUS],
      [kind |-> "TouristTrap", radius |-> TOURIST_TRAP_RADIUS],
      [kind |-> "ThingToDo", radius |-> ACTIVITY_LOCATION_RADIUS]>>

RECURSIVE InIdOrder(_)
InIdOrder(S) ==
    IF S = {} THEN << >>
    ELSE <<FirstPlace(S)>> \o InIdOrder(S \ {FirstPlace(S)})

RECURSIVE NearbyPlacesFrom(_, _, _)
NearbyPlacesFrom(k, latitude, longitude) ==
    IF k > Len(EngineModels) THEN << >>
    ELSE InIdOrder(PlacesNear(EngineModels[k].kind, latitude, longitude,
                              EngineModels[k].radius))
         \o NearbyPlacesFrom(k + 1, latitude, longitude)

_find_nearby_places(latitude, longitude) == NearbyPlacesFrom(1, latitude, longitude)

\* "quote": place.reason of a FamousPlace, which has no such attribute: the
\* AttributeError leaves _find_nearby_places and the engine.
FindNearbyRaises(latitude, longitude) ==
    PlacesNear("FamousPlace", latitude, longitude, FAMOUS_PLACE_RADIUS) # {}

\* A suggestion of the user and trip of the last two hours less than 50 m
\* from the position.
_already_suggested_here(sg, user, trip, latitude, longitude, now) ==
    \E x \in sg : /\ x.user = user
                  /\ x.trip = trip
                  /\ x.created_at >= now - NOTIFICATION_WINDOW_MINUTES
                  /\ _calculate_distance(x.latitude, x.longitude, latitude, longitude)
                         < ALREADY_SUGGESTED_RADIUS

_determine_type(kind) ==
    CASE kind \in {"MostFamousPlace", "FamousPlace"} -> "cultural"
      [] kind = "HiddenGem" -> "hidden_gem"
      [] kind = "TouristTrap" -> "warning"
      [] OTHER -> "activity"

\* _generate_suggestion: the text generator is called, then the row is
\* created; any exception of the two is caught and the answer is None.
\* `failing` are the places for which the generator raises.
_generate_suggestion(sg, user, trip, latitude, longitude, place_info, now, failing) ==
    IF place_info.id \in failing THEN [suggestions |-> sg, suggestion |-> None]
    ELSE [suggestions |-> sg \cup {[id |-> NextSuggestionId(sg), user |-> user,
                                    trip |-> trip,
                                    suggestion_type |-> _determine_type(place_info.kind),
                                    latitude |-> latitude, longitude |-> longitude,
                                    related_place_id |-> Some(place_info.id),
                                    created_at |-> now]},
          suggestion |-> Some(NextSuggestionId(sg))]

AbortOnFailure(nearby_places, sg, generated, user, trip, latitude, longitude, now, failing) ==
    IF \E k \in DOMAIN nearby_places : nearby_places[k].id \in failing
    THEN [suggestions |-> sg, generated |-> << >>, raised |-> TRUE]
    ELSE [suggestions |-> sg \cup
             {[id |-> NextSuggestionId(sg) + k - 1, user |-> user, trip |-> trip,
               suggestion_type |-> _determine_type(nearby_places[k].kind),
               latitude |-> latitude, longitude |-> longitude,
               related_place_id |-> Some(nearby_places[k].id),
               created_at |-> now] : k \in DOMAIN nearby_places},
          generated |-> [k \in DOMAIN nearby_places |-> NextSuggestionId(sg) + k - 1],
          raised |-> FALSE]

\* for place_info in nearby_places: ... if suggestion: append
RECURSIVE GenerateLoop(_, _, _, _, _, _, _, _, _)
GenerateLoop(nearby_places, sg, generated, user, trip, latitude, longitude, now, failing) ==
    IF nearby_places = << >>
    THEN [suggestions |-> sg, generated |-> generated, raised |-> FALSE]
    ELSE LET r == _generate_suggestion(sg, user, trip, latitude, longitude,
                                       Head(nearby_places), now, failing)
         IN  GenerateLoop(Tail(nearby_places), r.suggestions,
                          IF r.suggestion = None THEN generated
                          ELSE Append(generated, r.suggestion[1]),
                          user, trip, latitude, longitude, now, failing)

check_and_generate_suggestions(sg, user, trip, latitude, longitude, now, failing) ==
    IF _already_suggested_here(sg, user, trip, latitude, longitude, now)
    THEN [suggestions |-> sg, generated |-> << >>, raised |-> FALSE]
    ELSE IF FindNearbyRaises(latitude, longitude)
    THEN [suggestions |-> sg, generated |-> << >>, raised |-> TRUE]
    ELSE GenerateLoop(_find_nearby_places(latitude, longitude), sg, << >>,
                      user, trip, latitude, longitude, now, failing)

\* if recorded_at is None: recorded_at = timezone.now()
RecordedAt(recorded_at) == IF recorded_at = None THEN clock ELSE recorded_at[1]

NewSampleAt(id, user, latitude, longitude, recorded_at) ==
    [id |-> id, user |-> user, trip |-> ActiveTrip(user),
     latitude |-> latitude, longitude |-> longitude,
     recorded_at |-> RecordedAt(recorded_at)]

NewSample(id, user, latitude, longitude) ==
    NewSampleAt(id, user, latitude, longitude, None)

\* if hasattr(user, "profile"): the three columns are written whatever the
\* row holds.
record_location_profile_at(prof, user, latitude, longitude, recorded_at) ==
    IF user \notin DOMAIN prof THEN prof
    ELSE [prof EXCEPT ![user] = [latitude |-> Some(latitude),
                                 longitude |-> Some(longitude),
                                 last_location_update |-> Some(RecordedAt(recorded_at))]]

record_location_profile(prof, user, latitude, longitude) ==
    record_location_profile_at(prof, user, latitude, longitude, None)

Faults == {"none", "suggestion", "hotspot", "proximity"}

\* The side effects that ran to completion when `fault` names the step
\* that raised.
StepsRun(user, fault) ==
    (IF ActiveTrip(user) # 0 /\ fault # "suggestion" THEN {"suggestion"} ELSE {})
    \cup (IF fault \notin {"suggestion", "hotspot"} THEN {"hotspot"} ELSE {})
    \cup (IF fault = "none" THEN {"proximity"} ELSE {})

\* What the mutation answers when a step after record_location raised.
SideEffectFailure(r, fault) ==
    [r EXCEPT !.success = FALSE, !.error = fault, !.sample = 0]

\* The hotspot step over the samples `smp`: not reached when the suggestion
\* step raised; when the hotspot step itself raises, the rows are those
\* after the cleanup or after the whole pass.
HotspotStep(fault, smp) ==
    LET skipped == [hotspots |-> hotspots, counter |-> nextHotId, clusters |-> << >>]
        cleaned == [skipped EXCEPT !.hotspots = _cleanup_expired_hotspots(hotspots, clock)]
        whole == detect_hotspots(hotspots, nextHotId, smp, trips, clock)
    IN  IF fault = "suggestion" THEN {skipped}
        ELSE IF fault = "hotspot" THEN {cleaned, whole}
        ELSE {whole}

UpdateLocationAt(user, latitude, longitude, recorded_at, fault) ==
    /\ fault = "suggestion" => ActiveTrip(user) # 0
    /\ LET base == [EmptyRet EXCEPT !.op = "update_location", !.user = user,
                                   !.position = <<latitude, longitude>>]
           sid == Len(samples) + 1
           prof == record_location_profile_at(profile, user, latitude, longitude,
                                              recorded_at)
           new == NewSampleAt(sid, user, latitude, longitude, recorded_at)
           done == [base EXCEPT !.steps = StepsRun(user, fault), !.stored = sid,
                                !.sample = sid]
       IN  IF ~FitsDecimal(latitude) \/ ~FitsDecimal(longitude)
           THEN /\ UNCHANGED <<samples, profile, matches, hotvars>>
                /\ ret' = [base EXCEPT !.success = FALSE, !.error = "storage"]
           ELSE \E h \in HotspotStep(fault, Append(samples, new)) :
                /\ samples' = Append(samples, new)
                /\ profile' = prof
                /\ hotspots' = h.hotspots
                /\ nextHotId' = h.counter
                /\ IF fault # "none"
                   THEN /\ UNCHANGED matches
                        /\ ret' = [SideEffectFailure(done, fault) EXCEPT
                                     !.clusters = h.clusters]
                   ELSE \E r \in {update_match_distances(matches, prof, user,
                                                         latitude, longitude)} :
                        /\ matches' = r.matches
                        /\ ret' = [done EXCEPT
                                     !.clusters = h.clusters,
                                     !.success = ~r.stats.raised,
                                     !.error = IF r.stats.raised THEN "proximity" ELSE "",
                                     !.sample = IF r.stats.raised THEN 0 ELSE sid,
                                     !.updated = r.stats.updated,
                                     !.expired_count = r.stats.expired_count,
                                     !.close_matches = r.stats.close_matches]
    /\ UNCHANGED <<trips, friends, nextId, today>>
    /\ UNCHANGED procvars
    /\ UNCHANGED extvars

\* A request without recorded_at.
UpdateLocation(user, latitude, longitude, fault) ==
    UpdateLocationAt(user, latitude, longitude, None, fault)

\* The mutation with the suggestion engine and the notification spelled
\* out.  `failing` are the places for which the text generator raises;
\* `fault` = "hotspot" is a detection pass that raises while it cleans up or
\* saves hotspots.  An exception of any step ends the request with a
\* failure answer; what was written before it stays.
UpdateLocationFull(user, latitude, longitude, failing, fault) ==
    /\ fault \in {"none", "hotspot"}
    /\ FitsDecimal(latitude) /\ FitsDecimal(longitude)
    /\ \E new \in {NewSampleAt(Len(samples) + 1, user, latitude, longitude, None)} :
       \E prof \in {record_location_profile_at(profile, user, latitude, longitude, None)} :
       \E engine \in {IF new.trip # 0 /\ trips[new.trip].is_active
                      THEN check_and_generate_suggestions(suggestions, user, new.trip,
                                                          latitude, longitude, clock,
                                                          failing)
                      ELSE [suggestions |-> suggestions, generated |-> << >>,
                            raised |-> FALSE]} :
       LET base == [EmptyRet EXCEPT !.op = "update_location", !.user = user,
                                   !.position = <<latitude, longitude>>,
                                   !.stored = new.id, !.trip = new.trip,
                                   !.failing = failing]
       IN  /\ samples' = Append(samples, new)
           /\ profile' = prof
           /\ IF engine.raised
              THEN /\ suggestions' = engine.suggestions
                   /\ UNCHANGED <<matches, hotvars>>
                   /\ ret' = [base EXCEPT !.success = FALSE, !.error = "suggestion"]
              ELSE \E h \in HotspotStep(fault, Append(samples, new)) :
                   \E n \in {IF fault = "hotspot"
                             THEN [outcome |-> "-", suggestions |-> engine.suggestions,
                                   hotspot |-> 0]
                             ELSE notify(h.hotspots, engine.suggestions, prof, user,
                                         latitude, longitude, clock)} :
                   LET done == [base EXCEPT !.generated = engine.generated,
                                            !.clusters = h.clusters,
                                            !.notify = n.outcome,
                                            !.hotspot = n.hotspot]
                   IN  /\ hotspots' = h.hotspots
                       /\ nextHotId' = h.counter
                       /\ IF fault = "hotspot" \/ n.outcome = "raised"
                          THEN /\ suggestions' = engine.suggestions
                               /\ UNCHANGED matches
                               /\ ret' = [done EXCEPT !.success = FALSE,
                                                      !.error = "hotspot"]
                          ELSE \E r \in {update_match_distances(matches, prof, user,
                                                                latitude, longitude)} :
                               /\ suggestions' = n.suggestions
                               /\ matches' = r.matches
                               /\ ret' = [done EXCEPT
                                            !.success = ~r.stats.raised,
                                            !.error = IF r.stats.raised THEN "proximity"
                                                      ELSE "",
                                            !.updated = r.stats.updated,
                                            !.expired_count = r.stats.expired_count,
                                            !.close_matches = r.stats.close_matches]
    /\ UNCHANGED <<trips, friends, nextId, today>>
    /\ UNCHANGED procvars
    /\ UNCHANGED <<clock, hproc, insights, landmarks>>

-----------------------------------------------------------------------------
(* Initial states: four trips of three users, no match, no location yet    *)

Trip(user, privacy, start_date, end_date, destination, lat, lng, interests, active) ==
    [user |-> user, privacy |-> privacy, start_date |-> start_date,
     end_date |-> end_date, destination |-> destination,
     destination_lat |-> lat, destination_lng |-> lng, interests |-> interests,
     is_active |-> active, max_companions |-> 0, current_companions |-> 0]

\* Against trip 1 (50 + 30 + 20 = 100 for an identical trip): trip 2 scores
\* 100; trip 3 scores 25 + 30 + 10 = 65 (same name, no coordinates), 25 (one
\* shared day of two, nothing else) or has no day in common; trip 4, 3 km
\* away, scores 50 + 12 + 10 = 72.
Trip3Options ==
    {Trip("u2", "public", 2, 3, "goa", None, None, <<"food">>, FALSE),
     Trip("u2", "public", 2, 3, "Rome", None, None, << >>, FALSE),
     Trip("u2", "public", 3, 4, "Goa", Some(1000), Some(7000),
          <<"hiking", "food">>, FALSE)}

TripOptions(privacies) ==
    [t \in TripIds |->
       CASE t = 1 -> {Trip("u1", "public", 1, 2, "Goa", Some(1000), Some(7000),
                           <<"hiking", "food">>, TRUE)}
         [] t = 2 -> {Trip("u2", p, 1, 2, "Goa", Some(1000), Some(7000),
                           <<"hiking", "food">>, FALSE) : p \in privacies}
         [] t = 3 -> Trip3Options
         [] t = 4 -> {Trip("u3", p, 1, 2, "Hampi", Some(4000), Some(7000),
                           <<"food">>, FALSE) : p \in privacies \ {"private"}}]

\* Social.friends of each user (a directed relation).
FriendOptions(fs) ==
    {[u \in Users |-> CASE u = "u1" -> f [] u = "u2" -> {"u1"} [] OTHER -> {}] :
        f \in fs}

NoLocation == [latitude |-> None, longitude |-> None, last_location_update |-> None]

InitProc ==
    /\ apc = "idle"
    /\ amatch = << >>
    /\ atrip = << >>
    /\ upc = "idle"
    /\ uargs = << >>
    /\ uqueue = << >>
    /\ ucur = << >>
    /\ ustats = EmptyStats

InitWith(options, friendOptions) ==
    /\ trips \in [TripIds -> UNION {options[t] : t \in TripIds}]
    /\ \A t \in TripIds : trips[t] \in options[t]
    /\ friends \in friendOptions
    /\ matches = {}
    /\ nextId = 1
    /\ profile = [u \in Users |-> NoLocation]
    /\ samples = << >>
    /\ today = 1
    /\ ret = EmptyRet
    /\ served = 0
    /\ InitProc
    /\ clock = 0
    /\ hotspots = {}
    /\ nextHotId = 1
    /\ hproc = << >>
    /\ insights = << >>
    /\ suggestions = {}
    /\ landmarks = {}

Limits == 0..MaxLimit

\* The two parties of a stored match: the requesters who know its id.
Parties(m) == {Owner(m.trip), m.matched_user}

\* Positions the users' devices report, (latitude, longitude) on one
\* meridian: u1 and u2 are 5000 m or 5001 m apart, u1 and u3 400 m.
PositionsOf(user) ==
    CASE user = "u1" -> {<<1000, 7000>>}
      [] user = "u2" -> {<<6000, 7000>>, <<6001, 7000>>}
      [] OTHER -> {<<1400, 7000>>}

\* One more request is taken while the budget of the behaviour lasts.
Serve(budget) ==
    /\ served < budget
    /\ served' = served + 1

-----------------------------------------------------------------------------
(* Spec: the life of a match.  Requests are handled one at a time.         *)

DEFAULT_LIMIT == 10

Init == InitWith(TripOptions({"friends_only"}), FriendOptions({{"u2"}}))

FindRequest ==
    /\ Serve(MaxRequests)
    /\ \E tid \in TripIds : FindMatches(Owner(tid), tid, DEFAULT_LIMIT)

AcceptRequest ==
    /\ Serve(MaxRequests)
    /\ \E m \in matches : \E user \in Parties(m) : AcceptMatch(user, m.id)

RejectRequest ==
    /\ Serve(MaxRequests)
    /\ \E m \in matches : \E user \in Parties(m) : RejectMatch(user, m.id)

LocationRequest ==
    /\ Serve(MaxRequests)
    /\ \E user \in Users : \E pos \in PositionsOf(user) :
          UpdateLocation(user, pos[1], pos[2], "none")

Next == FindRequest \/ AcceptRequest \/ RejectRequest \/ LocationRequest

Spec == Init /\ [][Next]_vars

-----------------------------------------------------------------------------
(* SpecFind: MatchFinder over every privacy, friendship and limit          *)

InitFind == InitWith(TripOptions(Privacies), FriendOptions({{}, {"u2"}}))

FindAny ==
    /\ Serve(MaxFindRequests)
    /\ \E tid \in TripIds, limit \in Limits : FindMatches(Owner(tid), tid, limit)

AcceptAny ==
    /\ Serve(MaxFindRequests)
    /\ \E m \in matches : AcceptMatch(Owner(m.trip), m.id)

RejectAny ==
    /\ Serve(MaxFindRequests)
    /\ \E m \in matches : RejectMatch(Owner(m.trip), m.id)

NextFind == FindAny \/ AcceptAny \/ RejectAny

SpecFind == InitFind /\ [][NextFind]_vars

-----------------------------------------------------------------------------
(* SpecLoc: UpdateLocation with any coordinates, a side effect may raise   *)

\* Positions sent by the device of u1: in range, latitude 91 degrees,
\* longitude 181 degrees, latitude 1000 degrees.
LocPositionsOf(user) ==
    IF user = "u1"
    THEN {<<1000, 7000>>,
          <<91 * METRES_PER_DEGREE, 7000>>,
          <<1000, 181 * METRES_PER_DEGREE>>,
          <<1000 * METRES_PER_DEGREE, 7000>>}
    ELSE PositionsOf(user)

InitLoc == InitWith(TripOptions({"public"}), FriendOptions({{}}))

LocFind ==
    /\ Serve(MaxLocRequests)
    /\ FindMatches("u1", 1, DEFAULT_LIMIT)

LocUpdate ==
    /\ Serve(MaxLocRequests)
    /\ \E user \in Users : \E pos \in LocPositionsOf(user) : \E fault \in Faults :
          UpdateLocation(user, pos[1], pos[2], fault)

\* timezone.now().date() moves on to the next day.
NextDay ==
    /\ today < MaxDay
    /\ today' = today + 1
    /\ UNCHANGED <<trips, friends, matches, nextId, profile, samples, ret, served>>
    /\ UNCHANGED procvars
    /\ UNCHANGED <<hotvars, extvars>>

NextLoc == LocFind \/ LocUpdate \/ NextDay

SpecLoc == InitLoc /\ [][NextLoc]_vars

-----------------------------------------------------------------------------
(* SpecConc: AcceptMatch / RejectMatch and UpdateLocation as two requests  *)
(* in flight at once, each statement that reads or writes storage a step.  *)
(* ret is the answer of the accept/reject request, ustats the statistics   *)
(* of the location request.                                                *)

Quiet == apc \in {"idle", "done"} /\ upc \in {"idle", "done"}

InitConc == InitWith(TripOptions({"public"}), FriendOptions({{}}))

ConcFind ==
    /\ Quiet
    /\ Serve(MaxConcRequests)
    /\ FindMatches("u1", 1, DEFAULT_LIMIT)

\* match = TripMatch.objects.get(id=match_id, trip__user=user, status="pending")
DecideRead(op, user, mid) ==
    LET found == MatchLookup(matches, user, mid)
        base == [EmptyRet EXCEPT !.op = op, !.user = user, !.match = mid]
    IN  /\ apc \in {"idle", "done"}
        /\ IF found = {}
           THEN /\ apc' = "done"
                /\ amatch' = << >>
                /\ ret' = [base EXCEPT !.success = FALSE, !.error = "not_found"]
           ELSE /\ apc' = "save_match"
                /\ amatch' = <<CHOOSE m \in found : TRUE>>
                /\ ret' = [base EXCEPT !.success = FALSE, !.error = "running",
                                       !.trip = amatch'[1].trip]
        /\ atrip' = << >>
        /\ UNCHANGED <<dbvars, upc, uargs, uqueue, ucur, ustats>>
        /\ UNCHANGED <<hotvars, extvars>>

AcceptRead ==
    /\ Serve(MaxConcRequests)
    /\ \E m \in matches : DecideRead("accept", Owner(m.trip), m.id)

RejectRead ==
    /\ Serve(MaxConcRequests)
    /\ \E m \in matches : DecideRead("reject", Owner(m.trip), m.id)

\* match.status = "accepted" | "rejected"; match.save()
DecideSaveMatch ==
    /\ apc = "save_match"
    /\ LET row == [amatch[1] EXCEPT
                     !.status = IF ret.op = "accept" THEN "accepted" ELSE "rejected"]
       IN  IF SaveFullOK(matches, row)
           THEN /\ matches' = SaveFull(matches, row)
                /\ amatch' = <<row>>
                /\ IF ret.op = "accept"
                   THEN apc' = "load_trip" /\ ret' = ret
                   ELSE apc' = "done" /\ ret' = [ret EXCEPT !.success = TRUE, !.error = ""]
           ELSE /\ UNCHANGED <<matches, amatch>>
                /\ apc' = "done"
                /\ ret' = [ret EXCEPT !.error = "IntegrityError"]
    /\ UNCHANGED <<trips, friends, nextId, profile, samples, today, served, atrip,
                   upc, uargs, uqueue, ucur, ustats>>
    /\ UNCHANGED <<hotvars, extvars>>

\* trip = match.trip
AcceptLoadTrip ==
    /\ apc = "load_trip"
    /\ atrip' = <<trips[amatch[1].trip]>>
    /\ apc' = "save_trip"
    /\ UNCHANGED <<dbvars, ret, served, amatch, upc, uargs, uqueue, ucur, ustats>>
    /\ UNCHANGED <<hotvars, extvars>>

\* trip.current_companions += 1; trip.save(); return success
AcceptSaveTrip ==
    /\ apc = "save_trip"
    /\ trips' = [trips EXCEPT ![amatch[1].trip] =
                    [atrip[1] EXCEPT !.current_companions = @ + 1]]
    /\ apc' = "done"
    /\ ret' = [ret EXCEPT !.success = TRUE, !.error = ""]
    /\ UNCHANGED <<friends, matches, nextId, profile, samples, today, served,
                   amatch, atrip, upc, uargs, uqueue, ucur, ustats>>
    /\ UNCHANGED <<hotvars, extvars>>

\* LocationTracker.record_location(user, latitude, longitude)
UpdateRecord ==
    /\ upc \in {"idle", "done"}
    /\ Serve(MaxConcRequests)
    /\ \E user \in Users : \E pos \in PositionsOf(user) :
          /\ samples' = Append(samples, NewSample(Len(samples) + 1, user, pos[1], pos[2]))
          /\ profile' = record_location_profile(profile, user, pos[1], pos[2])
          /\ uargs' = <<user, pos[1], pos[2]>>
          /\ \E h \in HotspotStep("none", samples') :
                hotspots' = h.hotspots /\ nextHotId' = h.counter
    /\ UNCHANGED extvars
    /\ upc' = "query"
    /\ uqueue' = << >>
    /\ ucur' = << >>
    /\ ustats' = EmptyStats
    /\ UNCHANGED <<trips, friends, matches, nextId, today, ret, apc, amatch, atrip>>

\* pending_matches = TripMatch.objects.filter(...), evaluated by the for loop
UpdateQuery ==
    /\ upc = "query"
    /\ uqueue' = OrderedRows(PendingQuery(matches, uargs[1]))
    /\ upc' = "loop"
    /\ UNCHANGED <<dbvars, ret, served, apc, amatch, atrip, uargs, ucur, ustats>>
    /\ UNCHANGED <<hotvars, extvars>>

\* One turn of the loop up to the first save: the other user's profile is
\* read, the distance computed and written to its column.
UpdateDistance ==
    /\ upc = "loop"
    /\ IF uqueue = << >>
       THEN /\ upc' = "done"
            /\ UNCHANGED <<matches, uqueue, ucur, ustats>>
       ELSE LET match == Head(uqueue)
                other_user == OtherUser(match, uargs[1])
            IN  /\ uqueue' = Tail(uqueue)
                /\ IF ~Truthy(profile[other_user].latitude)
                   THEN UNCHANGED <<matches, ucur, ustats, upc>>
                   ELSE IF ~HasMatch(matches, match.id)
                   THEN /\ upc' = "done"
                        /\ ustats' = [ustats EXCEPT !.raised = TRUE]
                        /\ UNCHANGED <<matches, ucur>>
                   ELSE LET distance == calculate_distance_km(uargs[2], uargs[3],
                                            profile[other_user].latitude[1],
                                            profile[other_user].longitude[1])
                        IN  /\ matches' = SaveDistance(matches, match.id, distance)
                            /\ ucur' = <<[match EXCEPT !.current_distance_km = Some(distance),
                                                       !.last_distance_update = Some(clock)]>>
                            /\ ustats' = [ustats EXCEPT
                                            !.updated = @ \cup {match.id},
                                            !.close_matches =
                                                IF IsClose(distance)
                                                THEN Append(@, [match_id |-> match.id,
                                                                other_user |-> other_user,
                                                                distance_meters |-> distance])
                                                ELSE @]
                            /\ upc' = IF _should_expire(match, distance)
                                      THEN "expire" ELSE "loop"
    /\ UNCHANGED <<trips, friends, nextId, profile, samples, today, ret, served,
                   apc, amatch, atrip, uargs>>
    /\ UNCHANGED <<hotvars, extvars>>

\* match.is_proximity_expired = True; match.status = "rejected";
\* match.save(update_fields=["is_proximity_expired", "status"])
UpdateExpire ==
    /\ upc = "expire"
    /\ IF HasMatch(matches, ucur[1].id)
       THEN /\ matches' = SaveExpiry(matches, ucur[1].id)
            /\ ustats' = [ustats EXCEPT !.expired = @ \cup {ucur[1].id},
                                        !.expired_count = @ + 1]
            /\ upc' = "loop"
       ELSE /\ UNCHANGED matches
            /\ ustats' = [ustats EXCEPT !.raised = TRUE]
            /\ upc' = "done"
    /\ UNCHANGED <<trips, friends, nextId, profile, samples, today, ret, served,
                   apc, amatch, atrip, uargs, uqueue, ucur>>
    /\ UNCHANGED <<hotvars, extvars>>

NextConc ==
    \/ ConcFind
    \/ AcceptRead \/ RejectRead \/ DecideSaveMatch \/ AcceptLoadTrip \/ AcceptSaveTrip
    \/ UpdateRecord \/ UpdateQuery \/ UpdateDistance \/ UpdateExpire

SpecConc == InitConc /\ [][NextConc]_vars

-----------------------------------------------------------------------------
(* SpecCluster: _cluster_locations over the latest samples of four users   *)
(* on active trips, each absent or at one of a few points of a meridian.   *)

HotUsers == {"u1", "u2", "u3", "u4"}

HotTrips ==
    [t \in TripIds |->
        Trip(UserOrder[t], "public", 1, 2, "Goa", Some(1000), Some(7000), << >>, TRUE)]

\* Latitudes in metres: 0, 24 and 48 lie within 50 m of each other, 100 and
\* 148 are exactly one radius from 0 and 48, 300 is more than 200 m from
\* the first three.
ClusterPoints == {0, 24, 48, 100, 148, 300}

RECURSIVE SamplesAt(_, _, _)
SamplesAt(where, k, acc) ==
    IF k > Len(UserOrder) THEN acc
    ELSE SamplesAt(where, k + 1,
                   IF UserOrder[k] \notin DOMAIN where \/ where[UserOrder[k]] = None THEN acc
                   ELSE Append(acc, [id |-> Len(acc) + 1, user |-> UserOrder[k], trip |-> k,
                                     latitude |-> where[UserOrder[k]][1],
                                     longitude |-> 7000, recorded_at |-> 0]))

InitCluster ==
    /\ trips = HotTrips
    /\ friends = [u \in HotUsers |-> {}]
    /\ matches = {}
    /\ nextId = 1
    /\ \E where \in [HotUsers -> {None} \cup {Some(x) : x \in ClusterPoints}] :
          /\ samples = SamplesAt(where, 1, << >>)
          /\ profile = [u \in HotUsers |->
                          IF where[u] = None THEN NoLocation
                          ELSE [latitude |-> where[u], longitude |-> Some(7000),
                                last_location_update |-> Some(0)]]
    /\ today = 1
    /\ ret = EmptyRet
    /\ served = 0
    /\ InitProc
    /\ clock = 0
    /\ hotspots = {}
    /\ nextHotId = 1
    /\ hproc = << >>
    /\ insights = << >>
    /\ suggestions = {}
    /\ landmarks = {}

ClusterCall ==
    /\ ret.op = "init"
    /\ ret' = [EmptyRet EXCEPT
                 !.op = "cluster",
                 !.clusters = _cluster_locations(RecentLocations(samples, trips, clock))]
    /\ UNCHANGED <<dbvars, served, procvars, hotvars, extvars>>

NextCluster == ClusterCall

SpecCluster == InitCluster /\ [][NextCluster]_vars

-----------------------------------------------------------------------------
(* SpecScore: calculate_match_score on two trips of different shapes       *)

ScoreDates == {<<1, 7>>, <<3, 9>>, <<1, 1>>, <<7, 8>>, <<2, 3>>}
ScoreCoords == {None, Some(0), Some(1000), Some(4000), Some(7000)}
ScoreNames == {"Goa", "goa", "Rome"}
ScoreInterests == {<< >>, <<"food">>, <<"hiking", "food">>, <<"food", "food", "art">>}

ScoreTrips(user) ==
    {Trip(user, "public", d[1], d[2], n, c, IF c = None THEN None ELSE Some(7000), i, FALSE) :
        d \in ScoreDates, c \in ScoreCoords, n \in ScoreNames, i \in ScoreInterests}

InitScore ==
    /\ \E a \in ScoreTrips("u1"), b \in ScoreTrips("u2") :
          trips = [t \in TripIds |-> IF t = 1 THEN a ELSE IF t = 2 THEN b ELSE HotTrips[t]]
    /\ friends = [u \in HotUsers |-> {}]
    /\ matches = {}
    /\ nextId = 1
    /\ profile = [u \in HotUsers |-> NoLocation]
    /\ samples = << >>
    /\ today = 1
    /\ ret = EmptyRet
    /\ served = 0
    /\ InitProc
    /\ clock = 0
    /\ hotspots = {}
    /\ nextHotId = 1
    /\ hproc = << >>
    /\ insights = << >>
    /\ suggestions = {}
    /\ landmarks = {}

\* score, details = calculate_match_score(trip, candidate_trip)
ScoreCall ==
    /\ ret.op = "init"
    /\ \E a, b \in {1, 2} :
          /\ a # b
          /\ ret' = [EmptyRet EXCEPT
                       !.op = "score", !.trip = a, !.other = b,
                       !.score = calculate_match_score(trips[a], trips[b],
                                                       MAX_DISTANCE_KM).score]
    /\ UNCHANGED <<dbvars, served, procvars, hotvars, extvars>>

NextScore == ScoreCall

SpecScore == InitScore /\ [][NextScore]_vars

-----------------------------------------------------------------------------
(* SpecTrip: CreateTrip and UpdateTrip, travel/graphql/mutations.py         *)

MaxTrips == 2
MaxTripRequests == 3
TripDates == 1..3
TripUsers == {"u1", "u2"}

InitTrip ==
    /\ trips = << >>
    /\ friends = [u \in HotUsers |-> {}]
    /\ matches = {}
    /\ nextId = 1
    /\ profile = [u \in HotUsers |-> NoLocation]
    /\ samples = << >>
    /\ today = 1
    /\ ret = EmptyRet
    /\ served = 0
    /\ InitProc
    /\ clock = 0
    /\ hotspots = {}
    /\ nextHotId = 1
    /\ hproc = << >>
    /\ insights = << >>
    /\ suggestions = {}
    /\ landmarks = {}

\* CreateTrip.mutate: the dates of the input are compared before the row is
\* created; privacy defaults to friends_only and is_active to False.
CreateTrip ==
    /\ Serve(MaxTripRequests)
    /\ Len(trips) < MaxTrips
    /\ \E user \in TripUsers, start_date \in TripDates, end_date \in TripDates :
          LET input == [start_date |-> Some(start_date), end_date |-> Some(end_date)]
              answer == [EmptyRet EXCEPT !.op = "create_trip", !.user = user,
                                         !.input = input]
          IN  IF start_date > end_date
              THEN /\ ret' = [answer EXCEPT !.success = FALSE,
                                !.error = "Start date must be before end date."]
                   /\ UNCHANGED trips
              ELSE /\ trips' = Append(trips, Trip(user, "friends_only", start_date,
                                                  end_date, "Goa", None, None,
                                                  << >>, FALSE))
                   /\ ret' = [answer EXCEPT !.trip = Len(trips) + 1]
    /\ UNCHANGED <<friends, matches, nextId, profile, samples, today,
                   procvars, hotvars, extvars>>

\* The date test of UpdateTrip.mutate, on the trip with the input merged in.
UpdateDatesInvalidInput(trip, input) ==
    /\ input.start_date # None
    /\ input.end_date # None
    /\ input.start_date[1] > input.end_date[1]

UpdateDatesInvalid(trip, input) == trip.start_date > trip.end_date

\* UpdateTrip.mutate: the trip of the caller is loaded, the dates given in
\* the input replace the stored ones, the result is tested and saved.
UpdateTrip ==
    /\ Serve(MaxTripRequests)
    /\ \E user \in TripUsers, trip_id \in 1..MaxTrips,
          start_date \in {None} \cup {Some(d) : d \in TripDates},
          end_date \in {None} \cup {Some(d) : d \in TripDates} :
          LET input == [start_date |-> start_date, end_date |-> end_date]
              answer == [EmptyRet EXCEPT !.op = "update_trip", !.user = user,
                                         !.trip = trip_id, !.input = input]
          IN  IF trip_id \notin DOMAIN trips \/ trips[trip_id].user # user
              THEN /\ ret' = [answer EXCEPT !.success = FALSE,
                                !.error = "Trip not found or unauthorized."]
                   /\ UNCHANGED trips
              ELSE LET loaded == trips[trip_id]
                       trip == [loaded EXCEPT
                                  !.start_date = IF start_date # None
                                                 THEN start_date[1] ELSE @,
                                  !.end_date = IF end_date # None
                                               THEN end_date[1] ELSE @]
                   IN  IF UpdateDatesInvalid(trip, input)
                       THEN /\ ret' = [answer EXCEPT !.success = FALSE,
                                         !.error = "Start date must be before end date."]
                            /\ UNCHANGED trips
                       ELSE /\ trips' = [trips EXCEPT ![trip_id] = trip]
                            /\ ret' = answer
    /\ UNCHANGED <<friends, matches, nextId, profile, samples, today,
                   procvars, hotvars, extvars>>

NextTrip == CreateTrip \/ UpdateTrip

SpecTrip == InitTrip /\ [][NextTrip]_vars

-----------------------------------------------------------------------------
(* SpecInsights: fetch_or_generate_insights, insights/services/cache_manager.py *)

MaxInsightRequests == 4
MINUTES_PER_DAY == 24 * 60
INSIGHTS_EXPIRY == 90 * MINUTES_PER_DAY
InsightsTick == 45 * MINUTES_PER_DAY
MaxInsightsClock == 4 * InsightsTick

Places == {"Goa", "Rome"}
CityInputs == {"Goa", " Goa ", "Rome"}

\* city.strip() on the inputs above.
Strip(city) == IF city = " Goa " THEN "Goa" ELSE city

\* What Gemini.generate_place_insights gives: a parsed dict, an empty dict,
\* None, or a ValueError.
Generated == {"data", "empty", "none", "error"}

InitInsights ==
    /\ trips = << >>
    /\ friends = [u \in HotUsers |-> {}]
    /\ matches = {}
    /\ nextId = 1
    /\ profile = [u \in HotUsers |-> NoLocation]
    /\ samples = << >>
    /\ today = 1
    /\ ret = EmptyRet
    /\ served = 0
    /\ InitProc
    /\ clock = 0
    /\ hotspots = {}
    /\ nextHotId = 1
    /\ hproc = << >>
    /\ insights = [p \in Places |-> None]
    /\ suggestions = {}
    /\ landmarks = {}

NeedsRegenerationExpiryOnly(place_insights, now) == place_insights.expires_at < now

\* place_insights.expires_at < timezone.now() or place_insights.is_stale
NeedsRegeneration(place_insights, now) ==
    place_insights.expires_at < now \/ place_insights.is_stale

\* save_generate_data: None for empty insights, else the PlaceInsights row of
\* the place updated or created with a new expiry, is_stale False and the
\* next version.
save_generate_data(existing, parsed, now) ==
    IF parsed = "empty" THEN None
    ELSE Some([expires_at |-> now + INSIGHTS_EXPIRY,
               is_stale |-> FALSE,
               version |-> IF existing = None THEN 1 ELSE existing[1].version + 1,
               last_requested |-> IF existing = None THEN None
                                  ELSE existing[1].last_requested])

FetchOrGenerate ==
    /\ Serve(MaxInsightRequests)
    /\ \E city \in CityInputs, parsed \in Generated :
          LET place == Strip(city)
              existing == insights[place]
              cached == existing # None /\ ~NeedsRegeneration(existing[1], clock)
              answer == [EmptyRet EXCEPT !.op = "insights", !.place = place,
                                         !.calls = IF cached THEN 0 ELSE 1]
              saved == IF cached THEN existing
                       ELSE save_generate_data(existing, parsed, clock)
          IN  IF ~cached /\ parsed \in {"none", "error"}
              THEN /\ ret' = [answer EXCEPT !.success = FALSE,
                                            !.error = "ValueError"]
                   /\ UNCHANGED insights
              ELSE IF saved = None
              THEN /\ ret' = [answer EXCEPT !.success = FALSE,
                                            !.error = "ValueError"]
                   /\ UNCHANGED insights
              ELSE LET place_insights ==
                           [saved[1] EXCEPT !.last_requested = Some(clock)]
                   IN  /\ insights' = [insights EXCEPT ![place] = Some(place_insights)]
                       /\ ret' = [answer EXCEPT !.returned = <<place_insights>>]
    /\ UNCHANGED <<dbvars, procvars, hotvars, clock, hproc, suggestions, landmarks>>

\* is_stale is a plain column: it is set outside fetch_or_generate_insights.
MarkStale ==
    /\ Serve(MaxInsightRequests)
    /\ \E place \in Places :
          /\ insights[place] # None
          /\ ~insights[place][1].is_stale
          /\ insights' = [insights EXCEPT ![place][1].is_stale = TRUE]
    /\ ret' = [EmptyRet EXCEPT !.op = "stale"]
    /\ UNCHANGED <<dbvars, procvars, hotvars, clock, hproc, suggestions, landmarks>>

InsightsTime ==
    /\ clock + InsightsTick <= MaxInsightsClock
    /\ clock' = clock + InsightsTick
    /\ ret' = [EmptyRet EXCEPT !.op = "time"]
    /\ UNCHANGED <<dbvars, served, procvars, hotvars, hproc, insights, suggestions, landmarks>>

NextInsights == FetchOrGenerate \/ MarkStale \/ InsightsTime

SpecInsights == InitInsights /\ [][NextInsights]_vars

-----------------------------------------------------------------------------
(* SpecProx: distance updates and the periodic cleanup over several days   *)

MaxProxRequests == 4
CLEANUP_DAYS == 7
ProxTick == 4 * MINUTES_PER_DAY
MaxProxClock == 3 * ProxTick

\* Positions on the meridian of u1: u2 reports from the equator (1000 m
\* from u1), from 400 m and from 6000 m away.
ProxPositionsOf(user) ==
    CASE user = "u1" -> {<<1000, 7000>>}
      [] user = "u2" -> {<<0, 7000>>, <<1400, 7000>>, <<7000, 7000>>}
      [] OTHER -> {<<1400, 7000>>}

InitProx == InitWith(TripOptions({"public"}), FriendOptions({{}}))

ProxFind ==
    /\ Serve(MaxProxRequests)
    /\ FindMatches("u1", 1, DEFAULT_LIMIT)

ProxUpdate ==
    /\ Serve(MaxProxRequests)
    /\ \E user \in Users : \E pos \in ProxPositionsOf(user) :
          UpdateLocation(user, pos[1], pos[2], "none")

\* TripMatch.objects.filter(is_proximity_expired=True,
\*                          updated_at__lt=cutoff_date).delete()
cleanup_expired_matches(ms, now) ==
    LET cutoff_date == now - CLEANUP_DAYS * MINUTES_PER_DAY
    IN  {m \in ms : ~(m.is_proximity_expired /\ m.updated_at < cutoff_date)}

ProxCleanup ==
    /\ Serve(MaxProxRequests)
    /\ matches' = cleanup_expired_matches(matches, clock)
    /\ ret' = [EmptyRet EXCEPT !.op = "cleanup",
                 !.before = {m.id : m \in matches},
                 !.stored = Cardinality(matches \ cleanup_expired_matches(matches, clock))]
    /\ UNCHANGED <<trips, friends, nextId, profile, samples, today,
                   procvars, hotvars, extvars>>

\* timezone.now() moves on by four days.
ProxTime ==
    /\ clock + ProxTick <= MaxProxClock
    /\ clock' = clock + ProxTick
    /\ UNCHANGED <<dbvars, ret, served, procvars, hotvars, hproc, insights, suggestions, landmarks>>

NextProx == ProxFind \/ ProxUpdate \/ ProxCleanup \/ ProxTime

SpecProx == InitProx /\ [][NextProx]_vars

-----------------------------------------------------------------------------
(* SpecHot: detection passes of successive location updates over time;     *)
(* u4 has just reported from latitude 0 and no pass has run yet.           *)

MaxHotRequests == 3
HotTick == 25
MaxHotClock == 4 * HotTick

\* The users who report, and the latitudes they report from (metres along
\* the meridian of longitude 7000): 60 is within the cluster radius of 0
\* and of 150, which are outside the radius of each other.
HotSenders == {"u1", "u2"}
HotPoints == {0, 60, 150}

InitHot ==
    /\ trips = HotTrips
    /\ friends = [u \in HotUsers |-> {}]
    /\ matches = {}
    /\ nextId = 1
    /\ profile = [u \in HotUsers |->
                    IF u = "u4" THEN [latitude |-> Some(0), longitude |-> Some(7000),
                                     last_location_update |-> Some(0)]
                    ELSE NoLocation]
    /\ samples = <<[id |-> 1, user |-> "u4", trip |-> 4, latitude |-> 0,
                    longitude |-> 7000, recorded_at |-> 0]>>
    /\ today = 1
    /\ ret = EmptyRet
    /\ served = 0
    /\ InitProc
    /\ clock = 0
    /\ hotspots = {}
    /\ nextHotId = 1
    /\ hproc = << >>
    /\ insights = << >>
    /\ suggestions = {}
    /\ landmarks = {}

HotUpdate ==
    /\ Serve(MaxHotRequests)
    /\ \E user \in HotSenders, latitude \in HotPoints, fault \in {"none", "hotspot"} :
          UpdateLocation(user, latitude, 7000, fault)

\* timezone.now() moves on by 25 minutes.
HotTime ==
    /\ clock + HotTick <= MaxHotClock
    /\ clock' = clock + HotTick
    /\ UNCHANGED <<dbvars, ret, served, procvars, hotvars, hproc, insights, suggestions, landmarks>>

NextHot == HotUpdate \/ HotTime

SpecHot == InitHot /\ [][NextHot]_vars

-----------------------------------------------------------------------------
(* SpecHotConc: the detection passes of two UpdateLocation requests, each  *)
(* query and each save a step of its own; no transaction spans a pass.     *)

MaxHotConcRequests == 3
MaxHotConcClock == HotTick
Passes == {1, 2}
ConcSenders == {"u1", "u2"}
ConcPoints == {0, 150}

IdlePass ==
    [pc |-> "idle", user |-> "-", now |-> 0, clusters |-> << >>, found |-> << >>,
     existing |-> << >>, alone |-> TRUE]

InitHotConc ==
    /\ trips = HotTrips
    /\ friends = [u \in HotUsers |-> {}]
    /\ matches = {}
    /\ nextId = 1
    /\ profile = [u \in HotUsers |->
                    IF u = "u4" THEN [latitude |-> Some(0), longitude |-> Some(7000),
                                     last_location_update |-> Some(0)]
                    ELSE NoLocation]
    /\ samples = <<[id |-> 1, user |-> "u4", trip |-> 4, latitude |-> 0,
                    longitude |-> 7000, recorded_at |-> 0]>>
    /\ today = 1
    /\ ret = EmptyRet
    /\ served = 0
    /\ InitProc
    /\ clock = 0
    /\ hotspots = {}
    /\ nextHotId = 1
    /\ hproc = [p \in Passes |-> IdlePass]
    /\ insights = << >>
    /\ suggestions = {}
    /\ landmarks = {}

\* record_location, then HotspotDetector(user): self.now = timezone.now().
\* The requests under way are those of different users.  A pass that
\* starts while another runs, and the one it joins, are not alone.
PassBegin(p) ==
    /\ hproc[p].pc = "idle"
    /\ Serve(MaxHotConcRequests)
    /\ \E user \in ConcSenders, latitude \in ConcPoints :
          /\ \A o \in Passes : hproc[o].user # user
          /\ samples' = Append(samples, NewSample(Len(samples) + 1, user, latitude, 7000))
          /\ profile' = record_location_profile(profile, user, latitude, 7000)
          /\ hproc' = [q \in Passes |->
                         IF q = p
                         THEN [IdlePass EXCEPT
                                 !.pc = "cleanup", !.user = user, !.now = clock,
                                 !.alone = \A o \in Passes \ {p} : hproc[o].pc = "idle"]
                         ELSE IF hproc[q].pc = "idle" THEN hproc[q]
                         ELSE [hproc[q] EXCEPT !.alone = FALSE]]
    /\ UNCHANGED <<trips, friends, matches, nextId, today, ret, procvars, hotvars,
                   clock, insights, suggestions, landmarks>>

\* self._cleanup_expired_hotspots()
PassCleanup(p) ==
    /\ hproc[p].pc = "cleanup"
    /\ hotspots' = _cleanup_expired_hotspots(hotspots, hproc[p].now)
    /\ hproc' = [hproc EXCEPT ![p].pc = "scan"]
    /\ UNCHANGED <<dbvars, ret, served, procvars, nextHotId, clock, insights, suggestions, landmarks>>

\* _update_hotspots up to the loop: the recent samples are read and
\* grouped; the clusters of at least MIN_USERS users are gone through.
PassScan(p) ==
    /\ hproc[p].pc = "scan"
    /\ LET clusters == SelectSeq(
                          _cluster_locations(RecentLocations(samples, trips, hproc[p].now)),
                          LAMBDA c : c.user_count >= MIN_USERS_FOR_HOTSPOT)
       IN  hproc' = [hproc EXCEPT ![p].clusters = clusters, ![p].found = clusters,
                                  ![p].pc = IF clusters = << >> THEN "finish" ELSE "read"]
    /\ UNCHANGED <<dbvars, ret, served, procvars, hotvars, clock, insights, suggestions, landmarks>>

\* existing_hotspots = ActivityHotspot.objects.filter(expires_at__gte=self.now),
\* evaluated when the loop over it starts.
PassRead(p) ==
    /\ hproc[p].pc = "read"
    /\ hproc' = [hproc EXCEPT
                   ![p].existing = OrderedHotspots({h \in hotspots :
                                                      h.expires_at >= hproc[p].now}),
                   ![p].pc = "write"]
    /\ UNCHANGED <<dbvars, ret, served, procvars, hotvars, clock, insights, suggestions, landmarks>>

\* The first loaded hotspot within the radius is changed and saved (every
\* column, by primary key; an INSERT when the row is gone), else a hotspot
\* is created.
PassWrite(p) ==
    /\ hproc[p].pc = "write"
    /\ LET cluster == Head(hproc[p].clusters)
           now == hproc[p].now
           near == SelectSeq(hproc[p].existing, LAMBDA h : NearCluster(h, cluster))
           row == IF near # << >>
                  THEN [near[1] EXCEPT !.user_count = cluster.user_count,
                                       !.active_users = cluster.user_ids,
                                       !.last_activity = clock,
                                       !.expires_at = now + HOTSPOT_EXPIRY_MINUTES,
                                       !.related_place_id =
                                           IF cluster.place_id # None
                                           THEN cluster.place_id ELSE @,
                                       !.saved = nextHotId]
                  ELSE [id |-> nextHotId, latitude |-> cluster.latitude,
                        longitude |-> cluster.longitude,
                        user_count |-> cluster.user_count,
                        active_users |-> cluster.user_ids,
                        related_place_id |-> cluster.place_id,
                        first_detected |-> clock, last_activity |-> clock,
                        expires_at |-> now + HOTSPOT_EXPIRY_MINUTES,
                        saved |-> nextHotId]
       IN  /\ hotspots' = {h \in hotspots : h.id # row.id} \cup {row}
           /\ nextHotId' = nextHotId + 1
           /\ hproc' = [hproc EXCEPT
                          ![p].clusters = Tail(@),
                          ![p].existing = << >>,
                          ![p].pc = IF Tail(hproc[p].clusters) = << >>
                                    THEN "finish" ELSE "read"]
    /\ UNCHANGED <<dbvars, ret, served, procvars, clock, insights, suggestions, landmarks>>

\* The pass is over and the mutation answers.
PassFinish(p) ==
    /\ hproc[p].pc = "finish"
    /\ ret' = [EmptyRet EXCEPT !.op = "detect", !.user = hproc[p].user,
                               !.alone = hproc[p].alone,
                               !.clusters = hproc[p].found,
                               !.steps = {"hotspot"}]
    /\ hproc' = [hproc EXCEPT ![p] = IdlePass]
    /\ UNCHANGED <<dbvars, served, procvars, hotvars, clock, insights, suggestions, landmarks>>

\* timezone.now() moves on by 25 minutes.
HotConcTime ==
    /\ clock + HotTick <= MaxHotConcClock
    /\ clock' = clock + HotTick
    /\ UNCHANGED <<dbvars, ret, served, procvars, hotvars, hproc, insights, suggestions, landmarks>>

PassStep(p) ==
    \/ PassBegin(p)
    \/ PassCleanup(p)
    \/ PassScan(p)
    \/ PassRead(p)
    \/ PassWrite(p)
    \/ PassFinish(p)

NextHotConc == (\E p \in Passes : PassStep(p)) \/ HotConcTime

SpecHotConc == InitHotConc /\ [][NextHotConc]_vars

-----------------------------------------------------------------------------
(* SpecComp: companions.  Three travellers with the same plans; trip 1     *)
(* takes one companion, trips 2 and 3 two.  u2 is 5001 m from u1, u3 400 m.*)

MaxCompRequests == 4
MaxMatchId == 4

CompTrip(user, capacity) ==
    [Trip(user, "public", 1, 2, "Goa", Some(1000), Some(7000), <<"hiking">>, TRUE)
        EXCEPT !.max_companions = capacity]

CompTrips == <<CompTrip("u1", 1), CompTrip("u2", 2), CompTrip("u3", 2)>>

CompPosition(user) ==
    CASE user = "u1" -> 1000
      [] user = "u2" -> 6001
      [] OTHER -> 1400

InitComp ==
    /\ trips = CompTrips
    /\ friends = [u \in Users |-> {}]
    /\ matches = {}
    /\ nextId = 1
    /\ profile = [u \in Users |->
                    [latitude |-> Some(CompPosition(u)), longitude |-> Some(7000),
                     last_location_update |-> Some(0)]]
    /\ samples = << >>
    /\ today = 1
    /\ ret = EmptyRet
    /\ served = 0
    /\ InitProc
    /\ clock = 0
    /\ hotspots = {}
    /\ nextHotId = 1
    /\ hproc = << >>
    /\ insights = << >>
    /\ suggestions = {}
    /\ landmarks = {}

CompFind ==
    /\ Serve(MaxCompRequests)
    /\ \E tid \in DOMAIN trips : FindMatches(Owner(tid), tid, DEFAULT_LIMIT)

\* Any user may name any match id, of a row that exists or not.
CompAccept ==
    /\ Serve(MaxCompRequests)
    /\ \E user \in Users, mid \in 1..MaxMatchId : AcceptMatch(user, mid)

CompReject ==
    /\ Serve(MaxCompRequests)
    /\ \E user \in Users, mid \in 1..MaxMatchId : RejectMatch(user, mid)

\* ProximityMatcher.update_match_distances(user, latitude, longitude) from
\* the user's position.
CompProximity ==
    /\ Serve(MaxCompRequests)
    /\ \E user \in Users :
       \E r \in {update_match_distances(matches, profile, user,
                                        CompPosition(user), 7000)} :
          /\ matches' = r.matches
          /\ ret' = [EmptyRet EXCEPT !.op = "proximity", !.user = user,
                       !.success = ~r.stats.raised,
                       !.updated = r.stats.updated,
                       !.expired_count = r.stats.expired_count,
                       !.close_matches = r.stats.close_matches]
    /\ UNCHANGED <<trips, friends, nextId, profile, samples, today>>
    /\ UNCHANGED procvars
    /\ UNCHANGED <<hotvars, extvars>>

CompDelete ==
    /\ Serve(MaxCompRequests)
    /\ \E user \in Users, tid \in DOMAIN trips : DeleteTrip(user, tid)

NextComp == CompFind \/ CompAccept \/ CompReject \/ CompProximity \/ CompDelete

SpecComp == InitComp /\ [][NextComp]_vars

-----------------------------------------------------------------------------
(* SpecTrack: location updates with device timestamps.  u1 has two active  *)
(* trips, created one after the other, that start on day 1 or day 2.       *)

MaxTrackRequests == 3
TrackTick == 10
MaxTrackClock == 2 * TrackTick
TrackSenders == {"u1", "u2"}
TrackPoints == {1000, 2000}

TrackTrip(user, start_date) ==
    Trip(user, "public", start_date, 3, "Goa", Some(1000), Some(7000), << >>, TRUE)

InitTrack ==
    /\ \E a, b \in {1, 2} :
          trips = <<TrackTrip("u1", a), TrackTrip("u1", b), TrackTrip("u2", 1)>>
    /\ friends = [u \in Users |-> {}]
    /\ matches = {}
    /\ nextId = 1
    /\ profile = [u \in Users |-> NoLocation]
    /\ samples = << >>
    /\ today = 1
    /\ ret = EmptyRet
    /\ served = 0
    /\ InitProc
    /\ clock = 0
    /\ hotspots = {}
    /\ nextHotId = 1
    /\ hproc = << >>
    /\ insights = << >>
    /\ suggestions = {}
    /\ landmarks = {}

\* input.recorded_at: absent, or the time the device took the fix, now or
\* earlier.
DeviceTimes == {None} \cup {Some(t) : t \in {x \in 0..clock : x % TrackTick = 0}}

TrackUpdate ==
    /\ Serve(MaxTrackRequests)
    /\ \E user \in TrackSenders, latitude \in TrackPoints, recorded_at \in DeviceTimes :
          UpdateLocationAt(user, latitude, 7000, recorded_at, "none")

TrackTime ==
    /\ clock + TrackTick <= MaxTrackClock
    /\ clock' = clock + TrackTick
    /\ UNCHANGED <<dbvars, ret, served, procvars, hotvars, hproc, insights, suggestions, landmarks>>

NextTrack == TrackUpdate \/ TrackTime \/ NextDay

SpecTrack == InitTrack /\ [][NextTrack]_vars

-----------------------------------------------------------------------------
(* SpecNotify: hotspot notifications and place suggestions.  Two crowds    *)
(* have just reported: u1 at latitude 0 with u3 100 m to the south, and u5 *)
(* with u6 at 1000.  u2 (who has no Profile row) and u4 send updates.      *)
(* Place 1 (a MostFamousPlace) is at 0, place 2 (a TouristTrap) at 1100,   *)
(* place 3 (a HiddenGem) at 120, place 4 (a FamousPlace) at 3000.          *)

MaxNotifyRequests == 3
NotifyTick == 30
MaxNotifyClock == NotifyTick
NotifyUsers == {"u1", "u2", "u3", "u4", "u5", "u6"}
NotifySenders == {"u2", "u4"}
\* u2 reports from any of five points, u4 from the second, where no place is near.
NotifyPoints(user) == IF user = "u2" THEN {100, 600, 1000, 2600, 3000} ELSE {600}

NotifyLandmarks ==
    {[id |-> 1, kind |-> "MostFamousPlace", latitude |-> 0, longitude |-> 7000],
     [id |-> 2, kind |-> "TouristTrap", latitude |-> 1100, longitude |-> 7000],
     [id |-> 3, kind |-> "HiddenGem", latitude |-> 120, longitude |-> 7000],
     [id |-> 4, kind |-> "FamousPlace", latitude |-> 3000, longitude |-> 7000]}

NotifyTrip(user, active) ==
    Trip(user, "public", 1, 3, "Goa", Some(1000), Some(7000), << >>, active)

CrowdAt(user) ==
    CASE user = "u1" -> Some(0)
      [] user = "u3" -> Some(-100)
      [] user \in {"u5", "u6"} -> Some(1000)
      [] OTHER -> None

RECURSIVE CrowdSamples(_, _)
CrowdSamples(k, smp) ==
    IF k > Len(UserOrder) THEN smp
    ELSE IF CrowdAt(UserOrder[k]) = None THEN CrowdSamples(k + 1, smp)
    ELSE CrowdSamples(k + 1,
             Append(smp, [id |-> Len(smp) + 1, user |-> UserOrder[k], trip |-> k,
                          latitude |-> CrowdAt(UserOrder[k])[1], longitude |-> 7000,
                          recorded_at |-> 0]))

InitNotify ==
    /\ \E active \in BOOLEAN :
          trips = [k \in 1..6 |-> NotifyTrip(UserOrder[k], k # 4 \/ active)]
    /\ friends = [u \in NotifyUsers |-> {}]
    /\ matches = {}
    /\ nextId = 1
    /\ profile = [u \in NotifyUsers \ {"u2"} |->
                    IF CrowdAt(u) = None THEN NoLocation
                    ELSE [latitude |-> CrowdAt(u), longitude |-> Some(7000),
                          last_location_update |-> Some(0)]]
    /\ samples = CrowdSamples(1, << >>)
    /\ today = 1
    /\ ret = EmptyRet
    /\ served = 0
    /\ InitProc
    /\ clock = 0
    /\ hotspots = {}
    /\ nextHotId = 1
    /\ hproc = << >>
    /\ insights = << >>
    /\ suggestions = {}
    /\ landmarks = NotifyLandmarks

\* The places for which a request of the user from the position calls the
\* text generator, each of which may fail.
GeneratorCalls(user, latitude, longitude) ==
    IF \/ ActiveTrip(user) = 0
       \/ _already_suggested_here(suggestions, user, ActiveTrip(user),
                                  latitude, longitude, clock)
       \/ FindNearbyRaises(latitude, longitude)
    THEN {}
    ELSE {l.id : l \in SeqToSet(_find_nearby_places(latitude, longitude))}

\* One kind of failure per request: any set of failing generator calls, or
\* a failure of the hotspot pass.
NotifyUpdate ==
    /\ Serve(MaxNotifyRequests)
    /\ \E user \in NotifySenders : \E latitude \in NotifyPoints(user) :
       \E fault \in {"none", "hotspot"} :
       \E failing \in (IF fault = "none" THEN SUBSET GeneratorCalls(user, latitude, 7000)
                       ELSE {{}}) :
          UpdateLocationFull(user, latitude, 7000, failing, fault)

NotifyTime ==
    /\ clock + NotifyTick <= MaxNotifyClock
    /\ clock' = clock + NotifyTick
    /\ UNCHANGED <<dbvars, ret, served, procvars, hotvars, hproc, insights, suggestions,
                   landmarks>>

NextNotify == NotifyUpdate \/ NotifyTime

SpecNotify == InitNotify /\ [][NextNotify]_vars

-----------------------------------------------------------------------------
(* Properties                                                              *)

Row(id) == MatchById(matches, id)
Ids(s) == SeqToSet(s)
PendingOf(tid) == {m \in matches : m.trip = tid /\ m.status = "pending"}

\* C1 (Spec).  Proximity expiry is terminal: a match that is
\* proximity-expired has status "rejected", and after any further request
\* (a location update of either party at any distance, AcceptMatch,
\* RejectMatch, FindMatches) the row is still there, still expired, still
\* rejected.
C1_ExpiryTerminal ==
    [][\A m \in matches : m.is_proximity_expired =>
          /\ m.status = "rejected"
          /\ \E n \in matches' : /\ n.id = m.id
                                 /\ n.is_proximity_expired
                                 /\ n.status = "rejected"]_vars

\* An expired match whose parties have come back within 5 km of each other,
\* after a later request was served.
C1_Witness ==
    \E m \in matches :
        /\ m.is_proximity_expired
        /\ Truthy(profile[Owner(m.trip)].latitude)
        /\ Truthy(profile[m.matched_user].latitude)
        /\ Abs(profile[Owner(m.trip)].latitude[1] - profile[m.matched_user].latitude[1])
               <= AUTO_EXPIRE_KM
        /\ m.current_distance_km[1] > AUTO_EXPIRE_KM

\* C3 (SpecFind).  At most one TripMatch per (trip, matched user), and a
\* FindMatches call supersedes the earlier ones: after it, every pending
\* match of the trip was created by this call and none of the rows that
\* were pending before it is left.
C3_UniqueAndSuperseded ==
    /\ \A m1, m2 \in matches :
          (m1.trip = m2.trip /\ m1.matched_user = m2.matched_user) => m1 = m2
    /\ (ret.op = "find" /\ ret.error # "not_found") =>
          \A m \in PendingOf(ret.trip) :
              m.id \in Ids(ret.created) /\ m.id \notin ret.before

\* A second call on a trip that had pending rows, creating rows again.
C3_Witness ==
    /\ ret.op = "find"
    /\ ret.before # {}
    /\ ret.created # << >>
    /\ PendingOf(ret.trip) # {}

DatesDisjoint(a, b) ==
    \/ trips[a].end_date < trips[b].start_date
    \/ trips[b].end_date < trips[a].start_date

\* C4 (SpecFind).  For two trips whose date ranges share no day the score
\* is exactly 0, and no match between them is ever stored.
C4_NoOverlapNoMatch ==
    \A a, b \in TripIds :
        DatesDisjoint(a, b) =>
            /\ ScoreOf(a, b).score = 0
            /\ ~ \E m \in matches : m.trip = a /\ m.matched_trip = b

\* FindMatches has run, and created rows, on a trip with a public trip of
\* another user on other dates, equal in destination and interests.
C4_Witness ==
    /\ ret.op = "find"
    /\ ret.created # << >>
    /\ \E b \in TripIds :
          /\ DatesDisjoint(ret.trip, b)
          /\ trips[b].privacy = "public"
          /\ Owner(b) # Owner(ret.trip)
          /\ trips[b].interests = trips[ret.trip].interests
          /\ trips[b].destination_lat = trips[ret.trip].destination_lat

\* C5 (SpecFind).  After find_trip_matches(trip) the call has completed
\* and there is one pending match for every candidate trip scoring >= 30,
\* none for a candidate below 30, whatever rows the trip had before and
\* however many qualifying trips one candidate user owns.
C5_OnePendingPerQualifying ==
    (ret.op = "find" /\ ret.error # "not_found") =>
        /\ ret.success
        /\ \A c \in TripIds : IsCandidate(ret.trip, c) =>
              (Qualifies(ret.trip, c) <=>
                  \E m \in PendingOf(ret.trip) :
                      m.matched_trip = c /\ m.matched_user = Owner(c))

C7_PrivacyRespected ==
    \A m \in matches :
        /\ trips[m.matched_trip].privacy # "private"
        /\ trips[m.matched_trip].privacy = "friends_only" =>
              m.matched_user \in friends[Owner(m.trip)]
        /\ m.matched_user # Owner(m.trip)
        /\ m.matched_user = Owner(m.matched_trip)

\* FindMatches has created rows for a trip that also has a private and a
\* non-friend friends_only trip scoring above the threshold.
C7_Witness ==
    /\ ret.op = "find"
    /\ ret.created # << >>
    /\ \E c \in TripIds : trips[c].privacy = "private" /\ Qualifies(ret.trip, c)
                          /\ Owner(c) # Owner(ret.trip)
    /\ \E c \in TripIds : /\ trips[c].privacy = "friends_only"
                          /\ Qualifies(ret.trip, c)
                          /\ Owner(c) \notin friends[Owner(ret.trip)]
                          /\ Owner(c) # Owner(ret.trip)

\* C8 (Spec).  The expiry boundary is exclusive: a match that a location
\* update has measured is proximity-expired and rejected exactly when the
\* measured distance is strictly above 5.0 km; at 5.0 km it stays pending.
C8_ExpiryBoundary ==
    /\ ret.op = "update_location" =>
          \A id \in ret.updated :
              LET m == Row(id)
              IN  IF m.current_distance_km[1] > AUTO_EXPIRE_KM
                  THEN m.is_proximity_expired /\ m.status = "rejected"
                  ELSE ~m.is_proximity_expired /\ m.status = "pending"
    /\ \A m \in matches :
          m.is_proximity_expired <=>
              (m.current_distance_km # None /\ m.current_distance_km[1] > AUTO_EXPIRE_KM)

\* A match measured at exactly 5.0 km, still pending.
C8_Witness ==
    /\ ret.op = "update_location"
    /\ \E id \in ret.updated :
          /\ Row(id).current_distance_km = Some(AUTO_EXPIRE_KM)
          /\ Row(id).status = "pending"
          /\ ~Row(id).is_proximity_expired

\* C2 (SpecConc).  No lost update when AcceptMatch or RejectMatch runs
\* together with a location update on the same match: once both requests
\* have answered, a match reported as accepted is accepted and not
\* proximity-expired, a match reported as rejected is rejected, and a match
\* the location update marked proximity-expired is still expired and
\* rejected, as after either serial order of the two requests.
C2_NoLostUpdate ==
    (apc = "done" /\ upc = "done") =>
        /\ (ret.op = "accept" /\ ret.success) =>
              \E m \in matches : /\ m.id = ret.match
                                 /\ m.status = "accepted"
                                 /\ ~m.is_proximity_expired
        /\ (ret.op = "reject" /\ ret.success) =>
              \E m \in matches : m.id = ret.match /\ m.status = "rejected"
        /\ \A id \in ustats.expired :
              \E m \in matches : /\ m.id = id
                                 /\ m.is_proximity_expired
                                 /\ m.status = "rejected"

InRange(latitude, longitude) ==
    /\ Abs(latitude) <= 90 * METRES_PER_DEGREE
    /\ Abs(longitude) <= 180 * METRES_PER_DEGREE

\* C9 (SpecLoc).  A location update whose sample was stored reports
\* success and returns the sample, and every side effect (suggestions for
\* an active trip, hotspots, proximity) has run, also when one of them
\* raised.
C9_SideEffectsBestEffort ==
    (ret.op = "update_location" /\ ret.stored # 0) =>
        /\ ret.success
        /\ ret.sample = ret.stored
        /\ {"hotspot", "proximity"} \subseteq ret.steps
        /\ ActiveTrip(ret.user) # 0 => "suggestion" \in ret.steps

\* C10 (SpecLoc).  A location update with a latitude outside [-90, 90] or
\* a longitude outside [-180, 180] fails and stores nothing: no sample and
\* no last-known location is out of range.
C10_CoordinatesValidated ==
    /\ (ret.op = "update_location" /\ ~InRange(ret.position[1], ret.position[2])) =>
          ~ret.success /\ ret.stored = 0
    /\ \A i \in DOMAIN samples : InRange(samples[i].latitude, samples[i].longitude)
    /\ \A u \in Users : profile[u].latitude # None =>
          InRange(profile[u].latitude[1], profile[u].longitude[1])

OnActiveTrip(user, t) ==
    /\ trips[t].user = user
    /\ trips[t].is_active
    /\ trips[t].start_date <= today
    /\ trips[t].end_date >= today

\* C11 (SpecLoc).  A location update with storable coordinates appends
\* exactly one sample, of the requesting user at the given coordinates,
\* and sets the user's last-known location to them; the sample is linked
\* to a trip of the user that is active today when there is one and to no
\* trip otherwise.  Nothing else of the samples and the other users'
\* locations changes.
C11_RecordLocation ==
    [][(served' # served /\ ret'.op = "update_location"
          /\ FitsDecimal(ret'.position[1]) /\ FitsDecimal(ret'.position[2])) =>
        LET user == ret'.user
            new == samples'[Len(samples')]
        IN  /\ Len(samples') = Len(samples) + 1
            /\ SubSeq(samples', 1, Len(samples)) = samples
            /\ new.user = user
            /\ <<new.latitude, new.longitude>> = ret'.position
            /\ IF \E t \in TripIds : OnActiveTrip(user, t)
               THEN new.trip # 0 /\ OnActiveTrip(user, new.trip)
               ELSE new.trip = 0
            /\ profile'[user] = [latitude |-> Some(ret'.position[1]),
                                 longitude |-> Some(ret'.position[2]),
                                 last_location_update |-> Some(clock)]
            /\ \A o \in Users \ {user} : profile'[o] = profile[o]]_vars

\* u1, whose active trip is over, has a sample without trip after one
\* with the trip.
C11_Witness ==
    /\ ret.op = "update_location"
    /\ ret.user = "u1"
    /\ ret.stored # 0
    /\ samples[ret.stored].trip = 0
    /\ \E i \in DOMAIN samples : samples[i].user = "u1" /\ samples[i].trip = 1

SampleOf(user) == samples[LatestOf(samples, {i \in DOMAIN samples : samples[i].user = user})]
Located == {samples[i].user : i \in DOMAIN samples}
Apart(a, b) == Abs(SampleOf(a).latitude - SampleOf(b).latitude)
Members(c) == SeqToSet(c.user_ids)

\* C12 (SpecCluster).  Every cluster returned has at least MIN_USERS
\* members, each within CLUSTER_RADIUS of the seed (the first member); no
\* user is in two clusters; a user with nobody else within CLUSTER_RADIUS
\* is in none; and three users within 50 m of each other with the fourth
\* more than 200 m from all of them give exactly one cluster, of these
\* three, whichever of the four users the distant one is.
C12_GreedyClusters ==
    ret.op = "cluster" =>
        LET cs == ret.clusters
        IN  /\ \A k \in DOMAIN cs :
                  /\ cs[k].user_count >= MIN_USERS_FOR_HOTSPOT
                  /\ Len(cs[k].user_ids) = cs[k].user_count
                  /\ Cardinality(Members(cs[k])) = cs[k].user_count
                  /\ \A u \in Members(cs[k]) :
                        Apart(cs[k].user_ids[1], u) <= CLUSTER_RADIUS_KM
            /\ \A k, l \in DOMAIN cs : k # l => Members(cs[k]) \cap Members(cs[l]) = {}
            /\ \A u \in Located :
                  (\A o \in Located \ {u} : Apart(u, o) > CLUSTER_RADIUS_KM) =>
                      \A k \in DOMAIN cs : u \notin Members(cs[k])
            /\ \A far \in Located :
                  (/\ Located = HotUsers
                   /\ \A a, b \in HotUsers \ {far} : Apart(a, b) <= 50
                   /\ \A a \in HotUsers \ {far} : Apart(far, a) > 200) =>
                      /\ Len(cs) = 1
                      /\ cs[1].user_count = 3
                      /\ Members(cs[1]) = HotUsers \ {far}

\* The distant user is u2, between two of the three in the iteration.
C12_Witness ==
    /\ ret.op = "cluster"
    /\ Located = HotUsers
    /\ SampleOf("u2").latitude = 300
    /\ \A a, b \in HotUsers \ {"u2"} : Apart(a, b) <= 50
    /\ Len(ret.clusters) = 1

SharedDays(a, b) ==
    {d \in 1..31 : /\ trips[a].start_date <= d /\ d <= trips[a].end_date
                   /\ trips[b].start_date <= d /\ d <= trips[b].end_date}
DaysOf(a) == {d \in 1..31 : trips[a].start_date <= d /\ d <= trips[a].end_date}

\* The distance component of trips a and b in 1/5000 points: 30 points less
\* 30/5000 per metre up to 5 km with coordinates on both sides, else 30
\* points for equal names (letter case ignored).
DistancePoints(a, b) ==
    IF HasCoords(trips[a], trips[b])
    THEN LET d == Abs(trips[a].destination_lat[1] - trips[b].destination_lat[1])
         IN  IF d > 5000 THEN 0 ELSE 30 * (5000 - d)
    ELSE IF Lower(trips[a].destination) = Lower(trips[b].destination)
         THEN 30 * 5000 ELSE 0

\* C13 (SpecScore).  The score of two trips lies in [0, 100]; when they
\* share a day it is, to the nearest hundredth, shared days over the longer
\* duration times 50, plus the distance component (0..30), plus common
\* interests over all interests times 20 (0 when there is none); 1..7
\* against 3..9 at the same coordinates with the same interests is 85.71.
C13_ScoreFormula ==
    ret.op = "score" =>
        LET a == ret.trip
            b == ret.other
            ov == Cardinality(SharedDays(a, b))
            longer == Max(Cardinality(DaysOf(a)), Cardinality(DaysOf(b)))
            ia == SeqToSet(trips[a].interests)
            ib == SeqToSet(trips[b].interests)
            union == IF ia \cup ib = {} THEN 1 ELSE Cardinality(ia \cup ib)
            dp == DistancePoints(a, b)
            den == longer * 5000 * union
            num == 50 * ov * 5000 * union + dp * longer * union
                   + 20 * Cardinality(ia \cap ib) * longer * 5000
        IN  /\ 0 <= ret.score /\ ret.score <= 10000
            /\ 0 <= dp /\ dp <= 30 * 5000
            /\ ov > 0 => 2 * Abs(ret.score * den - 100 * num) <= den
            /\ (/\ <<trips[a].start_date, trips[a].end_date>> = <<1, 7>>
                /\ <<trips[b].start_date, trips[b].end_date>> = <<3, 9>>
                /\ HasCoords(trips[a], trips[b])
                /\ trips[a].destination_lat = trips[b].destination_lat
                /\ trips[a].interests = trips[b].interests
                /\ trips[a].interests # << >>) => ret.score = 8571

\* The example of the claim has been scored.
C13_Witness ==
    /\ ret.op = "score"
    /\ ret.score = 8571
    /\ <<trips[ret.trip].start_date, trips[ret.trip].end_date>> = <<1, 7>>
    /\ <<trips[ret.other].start_date, trips[ret.other].end_date>> = <<3, 9>>
    /\ HasCoords(trips[1], trips[2])

\* C14 (SpecScore).  The score is symmetric: scoring trip B against trip A
\* gives the score of A against B.
C14_ScoreSymmetric ==
    ret.op = "score" =>
        ret.score = calculate_match_score(trips[ret.other], trips[ret.trip],
                                          MAX_DISTANCE_KM).score

\* Two overlapping trips that differ in dates, coordinates, name and
\* interests have been scored above 0.
C14_Witness ==
    /\ ret.op = "score"
    /\ ret.score > 0
    /\ trips[1].start_date # trips[2].start_date
    /\ duration_days(trips[1]) # duration_days(trips[2])
    /\ trips[1].interests # trips[2].interests
    /\ trips[1].interests # << >> /\ trips[2].interests # << >>
    /\ trips[1].destination_lat # trips[2].destination_lat

\* The dates a trip would have once the input of the request is applied.
WouldStart(old) ==
    IF ret'.input.start_date # None THEN ret'.input.start_date[1]
    ELSE old.start_date
WouldEnd(old) ==
    IF ret'.input.end_date # None THEN ret'.input.end_date[1] ELSE old.end_date

C16_CachedOrGeneratedOnce ==
    [][ret'.op = "insights" =>
          LET old == insights[ret'.place]
              usable == /\ old # None
                        /\ old[1].expires_at >= clock
                        /\ ~old[1].is_stale
          IN  /\ usable =>
                    /\ ret'.calls = 0
                    /\ ret'.success
                    /\ ret'.returned = <<[old[1] EXCEPT !.last_requested = Some(clock)]>>
                    /\ insights'[ret'.place] = Some(ret'.returned[1])
              /\ ~usable => ret'.calls = 1]_vars

\* Regenerated insights (version 2 or later) have been returned from the
\* store on a later day without a call of the generator.
C16_Witness ==
    /\ ret.op = "insights"
    /\ ret.calls = 0
    /\ ret.success
    /\ insights[ret.place][1].version >= 2
    /\ clock > 0

\* The matches a location update of `user` has to write: pending, not
\* proximity-expired, with the user on one side and a last-known location
\* of the other side.
ToWrite(user) ==
    {m \in matches : /\ m.status = "pending"
                     /\ ~m.is_proximity_expired
                     /\ user \in {trips[m.trip].user, m.matched_user}
                     /\ profile[OtherUser(m, user)].latitude # None}

\* C17 (SpecProx).  A location update writes the distance and its time on
\* every pending, non-expired match of the user whose other party has a
\* last-known location, whatever its coordinates, leaves every other
\* match as it was, and counts the matches written.
C17_DistanceWrittenOnAll ==
    [][(served' # served /\ ret'.op = "update_location" /\ ret'.success) =>
          /\ \A m \in ToWrite(ret'.user) :
                \E n \in matches' :
                    /\ n.id = m.id
                    /\ n.last_distance_update = Some(clock)
                    /\ n.current_distance_km # None
          /\ \A m \in matches \ ToWrite(ret'.user) : m \in matches'
          /\ ret'.updated = {m.id : m \in ToWrite(ret'.user)}]_vars

\* The time of the last distance update of a match, which is also the time
\* of its expiry when it is proximity-expired; its creation before that.
LastUpdate(m) ==
    IF m.last_distance_update # None THEN m.last_distance_update[1]
    ELSE m.created_at

\* C18 (SpecProx).  The cleanup deletes exactly the proximity-expired
\* matches whose last distance update or expiry is more than 7 days old.
C18_CleanupWeekOld ==
    [][(served' # served /\ ret'.op = "cleanup") =>
          matches \ matches' =
              {m \in matches : /\ m.is_proximity_expired
                               /\ LastUpdate(m) < clock - 7 * 24 * 60}]_vars

HotIds(hs) == {h.id : h \in hs}

\* The users of a hotspot each have a sample within the activity window,
\* taken on an active trip within the cluster radius of the hotspot.
FromRecentCluster(h) ==
    /\ h.user_count >= 2
    /\ h.user_count = Len(h.active_users)
    /\ \A k \in DOMAIN h.active_users :
          \E i \in DOMAIN samples' :
              /\ samples'[i].user = h.active_users[k]
              /\ samples'[i].trip # 0
              /\ samples'[i].recorded_at >= clock - 30
              /\ Abs(samples'[i].latitude - h.latitude) <= 100

OnePerLocation ==
    \A h1, h2 \in {h \in hotspots : h.expires_at >= clock} :
        h1.id # h2.id =>
            _calculate_distance(h1.latitude, h1.longitude,
                                h2.latitude, h2.longitude) > 100

Decided == ret'.op \in {"accept", "reject"} /\ served' # served

C24_DecideOwnPending ==
    [][Decided =>
         LET named == {m \in matches : m.id = ret'.match}
             refused == \/ named = {}
                        \/ \E m \in named : \/ Owner(m.trip) # ret'.user
                                            \/ m.status \in {"accepted", "rejected"}
                                            \/ m.is_proximity_expired
         IN  /\ refused => /\ ~ret'.success
                           /\ ret'.error = "not_found"
                           /\ matches' = matches
                           /\ trips' = trips
             /\ (matches' # matches \/ trips' # trips) =>
                   \E m \in named : /\ Owner(m.trip) = ret'.user
                                    /\ m.status = "pending"
             /\ ~refused => /\ ret'.success
                            /\ \E n \in matches' :
                                  /\ n.id = ret'.match
                                  /\ n.status = IF ret'.op = "accept" THEN "accepted"
                                                ELSE "rejected"]_vars

\* AcceptMatch was refused for a proximity-expired match by its owner, and
\* the trip's companion count is as before.
C24_Witness ==
    /\ ret.op = "accept"
    /\ ~ret.success
    /\ \E m \in matches : /\ m.id = ret.match
                          /\ Owner(m.trip) = ret.user
                          /\ m.is_proximity_expired
                          /\ trips[m.trip].current_companions = 0

\* C27 (SpecComp).  In every reachable state a trip's current_companions
\* is the number of its matches with status "accepted".
AcceptedOf(tid) == {m \in matches : m.trip = tid /\ m.status = "accepted"}

C27_CompanionsCountAccepted ==
    \A t \in DOMAIN trips : trips[t].current_companions = Cardinality(AcceptedOf(t))

\* C28 (SpecComp).  A trip's current_companions never exceeds its
\* max_companions.
C28_WithinCapacity ==
    \A t \in DOMAIN trips : trips[t].current_companions <= trips[t].max_companions

\* C26 (SpecScore).  Whenever both trips have destination coordinates, of
\* any value, latitude 0 included, the distance component of the score is 0
\* beyond 5 km and (5 km - distance) / 5 km * 30 otherwise; the comparison of
\* the destination names (30 if equal ignoring case, else 0) is used only
\* when a coordinate is missing on either side.
BothHaveCoordinates(a, b) ==
    /\ trips[a].destination_lat # None /\ trips[a].destination_lng # None
    /\ trips[b].destination_lat # None /\ trips[b].destination_lng # None

DistanceComponent(a, b) ==
    IF BothHaveCoordinates(a, b)
    THEN LET d == Haversine(trips[a].destination_lat[1], trips[a].destination_lng[1],
                            trips[b].destination_lat[1], trips[b].destination_lng[1])
         IN  IF d > 5000 THEN 0 ELSE 30 * (5000 - d)
    ELSE IF Lower(trips[a].destination) = Lower(trips[b].destination)
         THEN 30 * 5000 ELSE 0

C26_DistanceFromCoordinates ==
    ret.op = "score" =>
        LET a == ret.trip
            b == ret.other
            ov == Cardinality(SharedDays(a, b))
            longer == Max(Cardinality(DaysOf(a)), Cardinality(DaysOf(b)))
            ia == SeqToSet(trips[a].interests)
            ib == SeqToSet(trips[b].interests)
            union == IF ia \cup ib = {} THEN 1 ELSE Cardinality(ia \cup ib)
            den == longer * 5000 * union
            num == 50 * ov * 5000 * union + DistanceComponent(a, b) * longer * union
                   + 20 * Cardinality(ia \cap ib) * longer * 5000
        IN  ov > 0 => 2 * Abs(ret.score * den - 100 * num) <= den

\* C25 (SpecTrack).  When the user has several active trips covering
\* today, the new sample is linked to the one that started last (greatest
\* start_date), whatever the order in which the trips were created.
C25_LatestStartedTrip ==
    [][(served' # served /\ ret'.op = "update_location" /\ ret'.stored # 0) =>
         LET new == samples'[ret'.stored]
         IN  \A o \in ActiveTrips(ret'.user) :
                /\ new.trip # 0
                /\ trips[new.trip].start_date >= trips[o].start_date]_vars

\* C29 (SpecTrack).  The last-known location of a user is that of the
\* user's sample with the greatest recorded_at, and last_location_update is
\* that recorded_at: a sample that arrives with an older device timestamp
\* moves neither backwards.
SamplesOfUser(user) == {i \in DOMAIN samples : samples[i].user = user}
NewestOf(user) ==
    {i \in SamplesOfUser(user) :
        \A j \in SamplesOfUser(user) : samples[i].recorded_at >= samples[j].recorded_at}

C29_LastKnownIsNewest ==
    \A user \in Users :
        SamplesOfUser(user) # {} =>
            \E i \in NewestOf(user) :
                /\ profile[user].latitude = Some(samples[i].latitude)
                /\ profile[user].longitude = Some(samples[i].longitude)
                /\ profile[user].last_location_update = Some(samples[i].recorded_at)

\* C21 (SpecNotify).  A location update creates a hotspot notification
\* only for a user with a trip that is active today, at most one, and only
\* for the nearest of the non-expired hotspots with at least MIN_USERS users
\* within 1.5 km of the user; none when the user is less than the cluster
\* radius from that hotspot.  For a user without active trip the pass has
\* still removed the expired hotspots and refreshed or created one for
\* every cluster.
Notifications(sg) == {x \in sg : x.suggestion_type = "activity_hotspot"}
Eligible(hs) == {h \in hs : h.expires_at >= clock /\ h.user_count >= MIN_USERS_FOR_HOTSPOT}
DistanceTo(h, position) ==
    _calculate_distance(position[1], position[2], h.latitude, h.longitude)
LocatedStep == ret'.op = "update_location" /\ served' # served

NoTripStillRefreshed ==
    /\ ret.op = "update_location"
    /\ ret.notify = "no_trip"
    /\ Cardinality(hotspots) = 2
    /\ suggestions = {}

\* C30 (SpecNotify).  A user is never notified of a hotspot of which the
\* user is a member: when the id of the user who sent the update is in the
\* hotspot's active_users, no notification of that hotspot is created.
NotifiedHotspot == {h \in hotspots : h.id = ret.hotspot}

SameKey(x, y) == /\ x.user = y.user
                 /\ x.trip = y.trip
                 /\ x.related_place_id = y.related_place_id

RadiusOf(kind) ==
    CASE kind \in {"MostFamousPlace", "FamousPlace"} -> 100
      [] kind = "HiddenGem" -> 50
      [] kind = "TouristTrap" -> 200
      [] OTHER -> 150

NearPosition(position) ==
    {l \in landmarks : Haversine(position[1], position[2], l.latitude, l.longitude)
                           <= RadiusOf(l.kind)}

PlaceSuggestions(sg) == sg \ Notifications(sg)

EngineGenerates(user, position) ==
    /\ ActiveTrips(user) # {}
    /\ NearPosition(position) # {}
    /\ \A l \in NearPosition(position) : l.kind # "FamousPlace"
    /\ ~ \E x \in suggestions :
            /\ x.user = user
            /\ x.trip \in ActiveTrips(user)
            /\ clock - x.created_at <= 120
            /\ Haversine(x.latitude, x.longitude, position[1], position[2]) < 50

C23_GeneratorFailureSkipsPlace ==
    [][(LocatedStep /\ EngineGenerates(ret'.user, ret'.position)) =>
         LET created == PlaceSuggestions(suggestions') \ PlaceSuggestions(suggestions)
             near == NearPosition(ret'.position)
         IN  /\ ret'.error # "suggestion"
             /\ PlaceSuggestions(suggestions) \subseteq PlaceSuggestions(suggestions')
             /\ \A l \in near :
                   Cardinality({x \in created : x.related_place_id = Some(l.id)})
                       = IF l.id \in ret'.failing THEN 0 ELSE 1
             /\ \A x \in created :
                   /\ x.user = ret'.user
                   /\ x.trip = ret'.trip
                   /\ <<x.latitude, x.longitude>> = ret'.position
                   /\ \E l \in near : x.related_place_id = Some(l.id)
             /\ SeqToSet(ret'.generated) = {x.id : x \in created}
             /\ Len(ret'.generated) = Cardinality(created)]_vars

\* The generator failed for place 1 and the engine returned the suggestion
\* for place 3 alone.
C23_Witness ==
    /\ ret.op = "update_location"
    /\ ret.failing = {1}
    /\ Len(ret.generated) = 1
    /\ ret.error = ""
    /\ \E x \in PlaceSuggestions(suggestions) : /\ x.id = ret.generated[1]
                                                /\ x.related_place_id = Some(3)
                                                /\ x.user = ret.user
    /\ ~ \E x \in PlaceSuggestions(suggestions) :
            x.related_place_id = Some(1) /\ x.user = ret.user

====
